---- MODULE Spec2Model ----
(***************************************************************************)
(* A model of the protocol layer of the idevice services: the lockdown     *)
(* client (start_session, get_value, get_all_values, set_value,            *)
(* start_service, pair), the installation-proxy long-running operation     *)
(* loop (watch_completion) and browse, the two misagent clients (profile   *)
(* install / remove / copy_all over the lockdown channel and over the      *)
(* framed RSD stream, with its check-in), the CoreDevice client (invoke and*)
(* the version structure), the app service's list_apps and uninstall_app on*)
(* top of it, and the connect sequence of the lockdown-started services.   *)
(*                                                                         *)
(* A behaviour follows one client object, one call at a time.  A call is   *)
(* a sequence of steps separated by the awaits of the code (a write, a     *)
(* read, the TLS upgrade, the retry sleep); the device and the transport   *)
(* are the environment, which picks the outcome of every read and write.   *)
(***************************************************************************)
EXTENDS Integers, Sequences, FiniteSets, TLC

(***************************************************************************)
(* Bounds of the model.                                                    *)
(***************************************************************************)
\* Pending replies the device may give to one pair call.
MaxPending == 3
\* Messages the device may send to one long-running operation.
MaxMsgs == 2

(***************************************************************************)
(* plist values.  An Integer is hi * 2^63 + lo: plist::Integer holds any   *)
(* i64 (hi = 0) or any u64 (hi = 1 for the values above i64::MAX).         *)
(***************************************************************************)
None == [t |-> "None"]
Bool(b) == [t |-> "Boolean", v |-> b]
Str(s) == [t |-> "String", v |-> s]
Data(d) == [t |-> "Data", v |-> d]
Num(n) == [hi |-> 0, lo |-> n]
BigNum(n) == [hi |-> 1, lo |-> n]
Integer(n) == [t |-> "Integer", v |-> n]
DictV(d) == [t |-> "Dictionary", v |-> d]

\* plist::Dictionary built from the fields that are present.
DictOf(f) == [k \in {j \in DOMAIN f : f[j] # None} |-> f[k]]
\* Dictionary::get / Dictionary::remove, as the Option they return.
Get(d, k) == IF k \in DOMAIN d THEN d[k] ELSE None
\* Dictionary::insert.
Insert(d, k, x) == [j \in DOMAIN d \cup {k} |-> IF j = k THEN x ELSE d[j]]

\* Value::as_string / into_string, as_data, as_boolean: Some(payload) or None.
as_string(x) == IF x.t = "String" THEN x ELSE None
as_data(x) == IF x.t = "Data" THEN x ELSE None
\* Integer::as_signed: Some only within i64.
as_signed(x) == IF x.t = "Integer" /\ x.v.hi = 0 THEN x ELSE None
\* Integer::as_unsigned: Some only within u64, that is when not negative.
as_unsigned(x) == IF x.t = "Integer" /\ (x.v.hi = 1 \/ x.v.lo >= 0) THEN x ELSE None

(***************************************************************************)
(* Results: Result<T, IdeviceError>.                                       *)
(***************************************************************************)
NoResult == [st |-> "none"]
Ok(x) == [st |-> "ok", val |-> x]
Err(e) == [st |-> "err", err |-> e, msg |-> ""]
ErrMsg(e, m) == [st |-> "err", err |-> e, msg |-> m]
Unit == "()"

VARIABLES
  pc,          \* position of the running call
  op,          \* the operation being called
  socket,      \* Idevice.socket.is_some()
  sent,        \* requests written to the connection by the running call
  reads,       \* read_plist calls made by the running call
  io,          \* outcome of the call's latest write or read on the connection
  res,         \* the last reply read (the local `response` / `res`)
  result,      \* what the call returned
  tlsUpgrades, \* Idevice::start_session (the TLS upgrade) attempts of the call
  local,       \* the other locals of the running call
  hist,        \* what the messages read by watch_completion / browse carried, in order
  sink,        \* the invocations of the progress callback, in order
  client,      \* the client object this behaviour follows
  uuids,       \* the version-4 UUIDs generated so far
  invoked,     \* the envelopes invoke has sent on this client, in order
  stream,      \* the bytes the framed stream still delivers before it ends
  wire,        \* the frames written to the framed stream by the running call
  rsd          \* the MisagentRsdClient: how it was made, and the check-in
               \* responses accepted on its stream

vars == <<pc, op, socket, sent, reads, io, res, result, tlsUpgrades, local, hist, sink,
          client, uuids, invoked, stream, wire, rsd>>

\* The client objects and the operations of each; core_device stands for the
\* free functions of that module.
Clients == {"LockdownClient", "InstallationProxyClient", "MisagentClient",
            "MisagentRsdClient", "CoreDeviceServiceClient", "AppServiceClient",
            "IdeviceService", "core_device"}
ClientOf(o) ==
  CASE o \in {"start_session", "pair", "get_value", "get_all_values", "set_value",
               "start_service"}
         -> "LockdownClient"
    [] o \in {"install", "upgrade", "uninstall", "browse"}
         -> "InstallationProxyClient"
    [] o \in {"misagent_install", "misagent_remove", "misagent_copy_all"} -> "MisagentClient"
    [] o \in {"rsd_install", "rsd_remove", "rsd_copy_all", "from_stream"}
         -> "MisagentRsdClient"
    [] o \in {"invoke"} -> "CoreDeviceServiceClient"
    [] o \in {"list_apps", "uninstall_app"} -> "AppServiceClient"
    [] o \in {"connect"} -> "IdeviceService"
    [] OTHER -> "core_device"

NoLocals == [none |-> TRUE]
NoIo == [kind |-> "none"]
Wrote(w) == [kind |-> "write", out |-> w]
Read(r) == [kind |-> "read", out |-> r]
Label == "idevice"

\* Idevice::send_plist: the transport decides; nothing is written without a socket.
SendOutcomes == IF socket THEN {Ok(Unit), Err("Socket")} ELSE {Err("NoEstablishedConnection")}
\* Idevice::read_plist: a reply dictionary, or an error (of the transport or
\* reported by the device).
ReadOutcomes(replies, errors) == {Ok(d) : d \in replies} \cup {Err(e) : e \in errors}

Idle == pc = "idle"
\* A new call starts when the client is not inside one.
Begin(o) ==
  /\ Idle
  /\ client = ClientOf(o)
  /\ op' = o
  /\ UNCHANGED <<socket, hist, sink, client, rsd>>

\* The call returns r to its caller.
Return(r) == pc' = "done" /\ result' = r
\* The call goes on to position p.
Goto(p) == pc' = p /\ result' = NoResult

(***************************************************************************)
(* LockdownClient::start_session                                           *)
(***************************************************************************)
PairingFiles == {[host_id |-> "HOST-1", system_buid |-> "BUID-1"]}

StartSessionRequest(pf) ==
  [Label |-> Str(Label), Request |-> Str("StartSession"),
   HostID |-> Str(pf.host_id), SystemBUID |-> Str(pf.system_buid)]

StartSessionReplies ==
  {DictOf([EnableSessionSSL |-> e, SessionID |-> s]) :
     e \in {None, Bool(TRUE), Bool(FALSE), Str("true"), Integer(Num(1))},
     s \in {None, Str("SID")}}

\* A variant of the match that only rejects an explicit false.
SessionSSLEnabledLax(response) == Get(response, "EnableSessionSSL") # Bool(FALSE)
\* The match on response.get("EnableSessionSSL"): TRUE when the call goes on
\* to the TLS upgrade, FALSE when it returns UnexpectedResponse.
SessionSSLEnabled(response) ==
  LET e == Get(response, "EnableSessionSSL")
  IN IF e.t = "Boolean" THEN e.v ELSE FALSE

\* A variant without the socket check: the write is attempted at once.
StartSessionCallUnchecked ==
  /\ Begin("start_session")
  /\ UNCHANGED <<uuids, invoked, stream, wire>>
  /\ reads' = 0 /\ res' = None /\ tlsUpgrades' = 0
  /\ \E pf \in PairingFiles, w \in SendOutcomes :
       /\ local' = [pairing_file |-> pf]
       /\ io' = Wrote(w)
       /\ IF w.st = "ok"
          THEN sent' = <<StartSessionRequest(pf)>> /\ Goto("ss_read")
          ELSE sent' = <<>> /\ Return(w)
\* The socket check and the write of the StartSession request.
StartSessionCall ==
  /\ Begin("start_session")
  /\ UNCHANGED <<uuids, invoked, stream, wire>>
  /\ reads' = 0 /\ res' = None /\ tlsUpgrades' = 0
  /\ \E pf \in PairingFiles :
       /\ local' = [pairing_file |-> pf]
       /\ IF ~socket
          THEN /\ Return(Err("NoEstablishedConnection"))
               /\ sent' = <<>> /\ io' = NoIo
          ELSE \E w \in SendOutcomes :
                 /\ io' = Wrote(w)
                 /\ IF w.st = "ok"
                    THEN sent' = <<StartSessionRequest(pf)>> /\ Goto("ss_read")
                    ELSE sent' = <<>> /\ Return(w)

\* The read of the reply and the check of EnableSessionSSL.
StartSessionRead ==
  /\ pc = "ss_read"
  /\ \E r \in ReadOutcomes(StartSessionReplies, {"Socket", "InvalidHostID"}) :
       /\ reads' = reads + 1
       /\ io' = Read(r)
       /\ IF r.st = "err"
          THEN Return(r) /\ UNCHANGED res
          ELSE /\ res' = r.val
               /\ IF SessionSSLEnabled(r.val)
                  THEN Goto("ss_tls")
                  ELSE Return(Err("UnexpectedResponse"))
  /\ UNCHANGED <<client, rsd, uuids, invoked, stream, wire>>
  /\ UNCHANGED <<op, socket, hist, sink, sent, tlsUpgrades, local>>

\* self.idevice.start_session(pairing_file): the in-place TLS upgrade.
StartSessionTls ==
  /\ pc = "ss_tls"
  /\ tlsUpgrades' = tlsUpgrades + 1
  /\ \E t \in {Ok(Unit), Err("Rustls")} : Return(t)
  /\ UNCHANGED <<client, rsd, uuids, invoked, stream, wire>>
  /\ UNCHANGED <<op, socket, hist, sink, sent, reads, io, res, local>>

(***************************************************************************)
(* LockdownClient::get_value, as pair uses it                              *)
(***************************************************************************)
GetValueRequest(key) ==
  [Label |-> Str(Label), Request |-> Str("GetValue"), Key |-> Str(key)]

\* The match on message.get("Value").
GetValueResult(message) ==
  IF Get(message, "Value") # None THEN Ok(Get(message, "Value"))
  ELSE Err("UnexpectedResponse")

GetValueReplies(values) == {DictOf([Value |-> x]) : x \in values}

(***************************************************************************)
(* LockdownClient::pair                                                    *)
(***************************************************************************)
HostIds == {"HOST-1"}
SystemBuids == {"BUID-1"}
Pending == "PairingDialogResponsePending"

\* crate::ca::generate_certificates: the certificate authority collaborator.
GenerateCertificates(pub_key) ==
  [dev_cert |-> Data("DEVCERT"), host_cert |-> Data("HOSTCERT"),
   private_key |-> Data("ROOTKEY")]

\* The pair record assembled before the loop.
PairRecord(pub_key, wifi_mac, ca, host_id, system_buid) ==
  [DevicePublicKey |-> pub_key, DeviceCertificate |-> ca.dev_cert,
   HostCertificate |-> ca.host_cert, HostID |-> Str(host_id),
   RootCertificate |-> ca.host_cert, RootPrivateKey |-> ca.private_key,
   WiFiMACAddress |-> wifi_mac, SystemBUID |-> Str(system_buid)]

\* A variant of the request whose record already has HostPrivateKey.
PairRequestWithHostKey(pair_record) ==
  [Label |-> Str(Label), Request |-> Str("Pair"),
   PairRecord |-> DictV(Insert(pair_record, "HostPrivateKey",
                               pair_record["RootPrivateKey"])),
   ProtocolVersion |-> Str("2"),
   PairingOptions |-> DictV([ExtendedPairingErrors |-> Bool(TRUE)])]
\* req: the Pair request, built once before the loop.
PairRequest(pair_record) ==
  [Label |-> Str(Label), Request |-> Str("Pair"),
   PairRecord |-> DictV(pair_record), ProtocolVersion |-> Str("2"),
   PairingOptions |-> DictV([ExtendedPairingErrors |-> Bool(TRUE)])]

PairingFileKeys ==
  {"DevicePublicKey", "DeviceCertificate", "HostCertificate", "HostID",
   "RootCertificate", "RootPrivateKey", "HostPrivateKey", "WiFiMACAddress",
   "SystemBUID"}
\* PairingFile::from_value: the record, when it has the fields of a pairing file.
PairingFileFromValue(record) ==
  IF PairingFileKeys \subseteq DOMAIN record THEN Ok(record) ELSE Err("UnexpectedResponse")

\* A variant of the Ok arm that leaves the escrow bag out.
PairedRecordNoBag(pair_record, ca, escrow) ==
  Insert(pair_record, "HostPrivateKey", ca.private_key)
\* The Ok arm of the loop: the record returned for a successful reply.
PairedRecord(pair_record, ca, escrow) ==
  LET withKey == Insert(pair_record, "HostPrivateKey", ca.private_key)
      bag == as_data(Get(escrow, "EscrowBag"))
  IN IF bag # None THEN Insert(withKey, "EscrowBag", bag) ELSE withKey

\* A variant of the loop without the Pending arm: Pending is returned.
PairReplySurfacesPending(r, pair_record, ca) ==
  IF r.st = "ok"
  THEN [next |-> "return", ret |-> PairingFileFromValue(PairedRecord(pair_record, ca, r.val))]
  ELSE [next |-> "return", ret |-> r]
\* A variant of the loop that sleeps and sends again on every error.
PairReplyRetriesAll(r, pair_record, ca) ==
  IF r.st = "ok"
  THEN [next |-> "return", ret |-> PairingFileFromValue(PairedRecord(pair_record, ca, r.val))]
  ELSE [next |-> "sleep", ret |-> NoResult]
\* One turn of the loop after the read: return, or sleep and send again.
PairReply(r, pair_record, ca) ==
  IF r.st = "ok"
  THEN [next |-> "return", ret |-> PairingFileFromValue(PairedRecord(pair_record, ca, r.val))]
  ELSE IF r.err = Pending
       THEN [next |-> "sleep", ret |-> NoResult]
       ELSE [next |-> "return", ret |-> r]

\* get_value("DevicePublicKey"): the write.
PairCall ==
  /\ Begin("pair")
  /\ UNCHANGED <<uuids, invoked, stream, wire>>
  /\ reads' = 0 /\ res' = None /\ tlsUpgrades' = 0
  /\ \E h \in HostIds, b \in SystemBuids, w \in SendOutcomes :
       /\ local' = [host_id |-> h, system_buid |-> b]
       /\ io' = Wrote(w)
       /\ IF w.st = "ok"
          THEN sent' = <<GetValueRequest("DevicePublicKey")>> /\ Goto("pair_pub")
          ELSE sent' = <<>> /\ Return(w)

\* get_value("DevicePublicKey"): the read and as_data; then the write of
\* get_value("WiFiAddress").
PairPubKey ==
  /\ pc = "pair_pub"
  /\ \E r \in ReadOutcomes(GetValueReplies({None, Data("PUBKEY"), Str("PUBKEY")}),
                           {"Socket"}) :
       /\ reads' = reads + 1
       /\ res' = IF r.st = "ok" THEN r.val ELSE res
       /\ LET got == IF r.st = "ok" THEN GetValueResult(r.val) ELSE r
          IN IF got.st = "err"
             THEN Return(got) /\ io' = Read(r) /\ UNCHANGED <<sent, local>>
             ELSE IF as_data(got.val) = None
             THEN /\ Return(Err("UnexpectedResponse")) /\ io' = Read(r)
                  /\ UNCHANGED <<sent, local>>
             ELSE \E w \in SendOutcomes :
                    /\ io' = Wrote(w)
                    /\ local' = [host_id |-> local.host_id,
                                 system_buid |-> local.system_buid,
                                 pub_key |-> got.val]
                    /\ IF w.st = "ok"
                       THEN /\ sent' = Append(sent, GetValueRequest("WiFiAddress"))
                            /\ Goto("pair_wifi")
                       ELSE UNCHANGED sent /\ Return(w)
  /\ UNCHANGED <<client, rsd, uuids, invoked, stream, wire>>
  /\ UNCHANGED <<op, socket, hist, sink, tlsUpgrades>>

\* A variant of the step that takes a WiFiAddress of any shape.
PairWifiAnyShape ==
  /\ pc = "pair_wifi"
  /\ \E r \in ReadOutcomes(GetValueReplies({None, Str("aa:bb"), Data("aa:bb")}),
                           {"Socket"}) :
       /\ reads' = reads + 1
       /\ io' = Read(r)
       /\ res' = IF r.st = "ok" THEN r.val ELSE res
       /\ LET got == IF r.st = "ok" THEN GetValueResult(r.val) ELSE r
          IN IF got.st = "err"
             THEN Return(got) /\ UNCHANGED local
             ELSE LET ca == GenerateCertificates(local.pub_key)
                      rec == PairRecord(local.pub_key, got.val, ca,
                                        local.host_id, local.system_buid)
                  IN /\ local' = [ca |-> ca, pair_record |-> rec,
                                  req |-> PairRequest(rec),
                                  pendings |-> 0, sleeps |-> 0]
                     /\ Goto("pair_send")
  /\ UNCHANGED <<client, rsd, uuids, invoked, stream, wire>>
  /\ UNCHANGED <<op, socket, hist, sink, sent, tlsUpgrades>>
\* get_value("WiFiAddress"): the read and as_string; then the certificates,
\* the pair record and the request.
PairWifi ==
  /\ pc = "pair_wifi"
  /\ \E r \in ReadOutcomes(GetValueReplies({None, Str("aa:bb"), Data("aa:bb")}),
                           {"Socket"}) :
       /\ reads' = reads + 1
       /\ io' = Read(r)
       /\ res' = IF r.st = "ok" THEN r.val ELSE res
       /\ LET got == IF r.st = "ok" THEN GetValueResult(r.val) ELSE r
          IN IF got.st = "err"
             THEN Return(got) /\ UNCHANGED local
             ELSE IF as_string(got.val) = None
             THEN Return(Err("UnexpectedResponse")) /\ UNCHANGED local
             ELSE LET ca == GenerateCertificates(local.pub_key)
                      rec == PairRecord(local.pub_key, got.val, ca,
                                        local.host_id, local.system_buid)
                  IN /\ local' = [ca |-> ca, pair_record |-> rec,
                                  req |-> PairRequest(rec),
                                  pendings |-> 0, sleeps |-> 0]
                     /\ Goto("pair_send")
  /\ UNCHANGED <<client, rsd, uuids, invoked, stream, wire>>
  /\ UNCHANGED <<op, socket, hist, sink, sent, tlsUpgrades>>

\* A variant of the write in the loop that sleeps and tries again when the
\* write fails.
PairSendRetries ==
  /\ pc = "pair_send"
  /\ \E w \in SendOutcomes :
       /\ io' = Wrote(w)
       /\ IF w.st = "ok"
          THEN sent' = Append(sent, local.req) /\ Goto("pair_read")
          ELSE UNCHANGED sent /\ Goto("pair_sleep")
  /\ UNCHANGED <<client, rsd, uuids, invoked, stream, wire>>
  /\ UNCHANGED <<op, socket, hist, sink, reads, res, tlsUpgrades, local>>
\* loop: self.idevice.send_plist(req.clone().into()).await?
PairSend ==
  /\ pc = "pair_send"
  /\ \E w \in SendOutcomes :
       /\ io' = Wrote(w)
       /\ IF w.st = "ok"
          THEN sent' = Append(sent, local.req) /\ Goto("pair_read")
          ELSE UNCHANGED sent /\ Return(w)
  /\ UNCHANGED <<client, rsd, uuids, invoked, stream, wire>>
  /\ UNCHANGED <<op, socket, hist, sink, reads, res, tlsUpgrades, local>>

PairReplies == {DictOf([EscrowBag |-> e]) : e \in {None, Data("ESCROW"), Str("ESCROW")}}
\* The device may answer Pending while the user has not confirmed.
PairErrors ==
  {"Socket", "UserDeniedPairing", "PasswordProtected"}
    \cup (IF local.pendings < MaxPending THEN {Pending} ELSE {})

\* loop: match self.idevice.read_plist().await
PairRead ==
  /\ pc = "pair_read"
  /\ \E r \in ReadOutcomes(PairReplies, PairErrors) :
       LET step == PairReply(r, local.pair_record, local.ca)
       IN /\ reads' = reads + 1
          /\ io' = Read(r)
          /\ res' = IF r.st = "ok" THEN r.val ELSE res
          /\ local' = [local EXCEPT !.pendings =
                         IF r.st = "err" /\ r.err = Pending THEN @ + 1 ELSE @]
          /\ IF step.next = "return" THEN Return(step.ret) ELSE Goto("pair_sleep")
  /\ UNCHANGED <<client, rsd, uuids, invoked, stream, wire>>
  /\ UNCHANGED <<op, socket, hist, sink, sent, tlsUpgrades>>

\* A variant of the sleep with a retry limit: the second sleep gives up.
PairSleepGivesUp ==
  /\ pc = "pair_sleep"
  /\ local' = [local EXCEPT !.sleeps = @ + 1]
  /\ IF local.sleeps >= 1 THEN Return(Err("Timeout")) ELSE Goto("pair_send")
  /\ UNCHANGED <<client, rsd, uuids, invoked, stream, wire>>
  /\ UNCHANGED <<op, socket, hist, sink, sent, reads, io, res, tlsUpgrades>>
\* tokio::time::sleep(Duration::from_secs(1)), then the next turn of the loop.
PairSleep ==
  /\ pc = "pair_sleep"
  /\ local' = [local EXCEPT !.sleeps = @ + 1]
  /\ Goto("pair_send")
  /\ UNCHANGED <<client, rsd, uuids, invoked, stream, wire>>
  /\ UNCHANGED <<op, socket, hist, sink, sent, reads, io, res, tlsUpgrades>>

(***************************************************************************)
(* InstallationProxyClient::install / upgrade / uninstall (_with_callback)  *)
(* and watch_completion                                                    *)
(***************************************************************************)
PackagePath == "/PublicStaging/app.ipa"
BundleId == "com.example.app"
\* The `state` argument handed back to the callback on every invocation.
CallbackState == "state"

InstallCommand(kind) ==
  IF kind = "uninstall"
  THEN [Command |-> Str("Uninstall"), ApplicationIdentifier |-> Str(BundleId),
        ClientOptions |-> DictV(<<>>)]
  ELSE [Command |-> Str(IF kind = "install" THEN "Install" ELSE "Upgrade"),
        ClientOptions |-> DictV(<<>>), PackagePath |-> Str(PackagePath)]

\* The fields of a message that decide what watch_completion does with it.
ControlKeys == {"ErrorDescription", "PercentComplete", "Status"}
Control(m) == [k \in DOMAIN m \cap ControlKeys |-> m[k]]

WatchLabels ==
  {DictOf([CurrentOperation |-> c, StatusDescription |-> d, Phase |-> p]) :
     c \in {None, Str("CopyingApplication"), Integer(Num(7))},
     d \in {None, Str("Verifying")},
     p \in {Str("Preflight")}}
    \cup {<<>>}

WatchControls ==
  {DictOf([ErrorDescription |-> e, PercentComplete |-> c, Status |-> st]) :
     e \in {None, Str("disk full"), Integer(Num(5))},
     c \in {None, Integer(Num(10)), Integer(Num(50)), Integer(Num(-1))},
     st \in {None, Str("Complete"), Str("Installing")}}

\* The messages the device may send while the operation runs.
WatchMessages == {c @@ l : c \in WatchControls, l \in WatchLabels}

\* Value::as_unsigned_integer
as_unsigned_integer(x) == as_unsigned(x)

\* A variant that gives Phase the first place.
StatusTextPhaseFirst(m) ==
  IF as_string(Get(m, "Phase")) # None THEN Get(m, "Phase").v
  ELSE IF as_string(Get(m, "StatusDescription")) # None THEN Get(m, "StatusDescription").v
  ELSE IF as_string(Get(m, "CurrentOperation")) # None THEN Get(m, "CurrentOperation").v
  ELSE "Installing"
\* status_text: CurrentOperation, else StatusDescription, else Phase, else "Installing".
StatusText(m) ==
  IF as_string(Get(m, "CurrentOperation")) # None THEN Get(m, "CurrentOperation").v
  ELSE IF as_string(Get(m, "StatusDescription")) # None THEN Get(m, "StatusDescription").v
  ELSE IF as_string(Get(m, "Phase")) # None THEN Get(m, "Phase").v
  ELSE "Installing"

\* A variant that invokes the callback before it looks at ErrorDescription.
WatchMessageCallbackFirst(m) ==
  LET e == as_string(Get(m, "ErrorDescription"))
      c == as_unsigned_integer(Get(m, "PercentComplete"))
      st == as_string(Get(m, "Status"))
  IN IF e # None
     THEN [ret |-> ErrMsg("InstallationProxyOperationFailed", e.v),
           status_text |-> StatusText(m), callback |-> c]
     ELSE [ret |-> IF st # None /\ st.v = "Complete" THEN Ok(Unit) ELSE NoResult,
           status_text |-> StatusText(m), callback |-> c]
\* A variant that looks at Status before ErrorDescription.
WatchMessageStatusFirst(m) ==
  LET e == as_string(Get(m, "ErrorDescription"))
      c == as_unsigned_integer(Get(m, "PercentComplete"))
      st == as_string(Get(m, "Status"))
  IN IF st # None /\ st.v = "Complete"
     THEN [ret |-> Ok(Unit), status_text |-> StatusText(m), callback |-> c]
     ELSE IF e # None
     THEN [ret |-> ErrMsg("InstallationProxyOperationFailed", e.v),
           status_text |-> "", callback |-> None]
     ELSE [ret |-> NoResult, status_text |-> StatusText(m), callback |-> c]
\* A variant that ends on any Status string.
WatchMessageAnyStatus(m) ==
  LET e == as_string(Get(m, "ErrorDescription"))
      c == as_unsigned_integer(Get(m, "PercentComplete"))
      st == as_string(Get(m, "Status"))
  IN IF e # None
     THEN [ret |-> ErrMsg("InstallationProxyOperationFailed", e.v),
           status_text |-> "", callback |-> None]
     ELSE [ret |-> IF st # None THEN Ok(Unit) ELSE NoResult,
           status_text |-> StatusText(m), callback |-> c]
\* A variant that looks at ErrorDescription only when the message has neither
\* a percent nor Status "Complete".
WatchMessageErrorLast(m) ==
  LET e == as_string(Get(m, "ErrorDescription"))
      c == as_unsigned_integer(Get(m, "PercentComplete"))
      st == as_string(Get(m, "Status"))
      complete == st # None /\ st.v = "Complete"
  IN IF e # None /\ c = None /\ ~complete
     THEN [ret |-> ErrMsg("InstallationProxyOperationFailed", e.v),
           status_text |-> "", callback |-> None]
     ELSE [ret |-> IF complete THEN Ok(Unit) ELSE NoResult,
           status_text |-> StatusText(m), callback |-> c]
\* A variant that returns on Status "Complete" before it invokes the callback.
WatchMessageCompleteSkipsSink(m) ==
  LET e == as_string(Get(m, "ErrorDescription"))
      c == as_unsigned_integer(Get(m, "PercentComplete"))
      st == as_string(Get(m, "Status"))
  IN IF e # None
     THEN [ret |-> ErrMsg("InstallationProxyOperationFailed", e.v),
           status_text |-> "", callback |-> None]
     ELSE IF st # None /\ st.v = "Complete"
     THEN [ret |-> Ok(Unit), status_text |-> StatusText(m), callback |-> None]
     ELSE [ret |-> NoResult, status_text |-> StatusText(m), callback |-> c]
\* One turn of the loop of watch_completion on the message m:
\*   ret       the value returned, NoResult when the loop reads on
\*   callback  Some(c) when callback((c, state)) is invoked, else None
WatchMessage(m) ==
  LET e == as_string(Get(m, "ErrorDescription"))
      c == as_unsigned_integer(Get(m, "PercentComplete"))
      st == as_string(Get(m, "Status"))
  IN IF e # None
     THEN [ret |-> ErrMsg("InstallationProxyOperationFailed", e.v),
           status_text |-> "", callback |-> None]
     ELSE [ret |-> IF st # None /\ st.v = "Complete" THEN Ok(Unit) ELSE NoResult,
           status_text |-> StatusText(m), callback |-> c]

\* The operations that end in watch_completion.
WatchOps == {"install", "upgrade", "uninstall"}

\* The write of the command.
InstallCall ==
  \E kind \in WatchOps :
    /\ Begin(kind)
    /\ UNCHANGED <<uuids, invoked, stream, wire>>
    /\ reads' = 0 /\ res' = None /\ tlsUpgrades' = 0
    /\ local' = [status_text |-> ""]
    /\ \E w \in SendOutcomes :
         /\ io' = Wrote(w)
         /\ IF w.st = "ok"
            THEN sent' = <<InstallCommand(kind)>> /\ Goto("watch")
            ELSE sent' = <<>> /\ Return(w)

\* A variant of the loop that starts the sink and does not wait for it.
WatchReadDetached ==
  /\ pc = "watch"
  /\ \E r \in ReadOutcomes(IF Len(hist) < MaxMsgs THEN WatchMessages ELSE {}, {"Socket"}) :
       /\ reads' = reads + 1
       /\ io' = Read(r)
       /\ IF r.st = "err"
          THEN Return(r) /\ UNCHANGED <<res, hist, sink, local>>
          ELSE LET step == WatchMessage(r.val)
               IN /\ res' = r.val
                  /\ hist' = Append(hist, Control(r.val))
                  /\ IF step.callback # None
                     THEN /\ sink' = Append(sink, [percent |-> step.callback.v,
                                                   state |-> CallbackState])
                          /\ local' = [status_text |-> step.status_text,
                                       awaiting |-> step.ret]
                          /\ IF step.ret = NoResult THEN Goto("watch") ELSE Return(step.ret)
                     ELSE /\ sink' = sink
                          /\ local' = [status_text |-> step.status_text]
                          /\ IF step.ret = NoResult THEN Goto("watch")
                             ELSE Return(step.ret)
  /\ UNCHANGED <<client, rsd, uuids, invoked, stream, wire>>
  /\ UNCHANGED <<op, socket, sent, tlsUpgrades>>
\* loop: one read_plist and what follows it, up to the await of the
\* callback when the message has a percent.  The device sends at most
\* MaxMsgs messages; then the connection ends.
WatchRead ==
  /\ pc = "watch"
  /\ \E r \in ReadOutcomes(IF Len(hist) < MaxMsgs THEN WatchMessages ELSE {}, {"Socket"}) :
       /\ reads' = reads + 1
       /\ io' = Read(r)
       /\ IF r.st = "err"
          THEN Return(r) /\ UNCHANGED <<res, hist, sink, local>>
          ELSE LET step == WatchMessage(r.val)
               IN /\ res' = r.val
                  /\ hist' = Append(hist, Control(r.val))
                  /\ IF step.callback # None
                     THEN /\ sink' = Append(sink, [percent |-> step.callback.v,
                                                   state |-> CallbackState])
                          /\ local' = [status_text |-> step.status_text,
                                       awaiting |-> step.ret]
                          /\ Goto("watch_callback")
                     ELSE /\ sink' = sink
                          /\ local' = [status_text |-> step.status_text]
                          /\ IF step.ret = NoResult THEN Goto("watch")
                             ELSE Return(step.ret)
  /\ UNCHANGED <<client, rsd, uuids, invoked, stream, wire>>
  /\ UNCHANGED <<op, socket, sent, tlsUpgrades>>

\* callback((c, state.clone())).await has completed: the Status of the
\* message decides between the next turn and the return.
WatchCallback ==
  /\ pc = "watch_callback"
  /\ local' = [status_text |-> local.status_text]
  /\ IF local.awaiting = NoResult THEN Goto("watch") ELSE Return(local.awaiting)
  /\ UNCHANGED <<client, rsd, uuids, invoked, stream, wire>>
  /\ UNCHANGED <<op, socket, hist, sink, sent, reads, io, res, tlsUpgrades>>

(***************************************************************************)
(* InstallationProxyClient::browse                                         *)
(***************************************************************************)
Array(a) == [t |-> "Array", v |-> a]
\* Value::into_array: Some(elements) or None.
into_array(x) == IF x.t = "Array" THEN x ELSE None

\* The `options` argument.
BrowseOptions == {None, DictV([ApplicationType |-> Str("User")])}
\* options.unwrap_or(empty dictionary) and the command.
BrowseCommand(options) ==
  [Command |-> Str("Browse"),
   ClientOptions |-> IF options = None THEN DictV(<<>>) ELSE options]

\* The messages the device may send in answer to Browse.
BrowseMessages ==
  {DictOf([CurrentList |-> l, Status |-> st]) :
     l \in {None, Array(<<>>), Array(<<Str("A"), Str("B")>>), Array(<<Str("C")>>),
            Str("A")},
     st \in {None, Str("Complete"), Str("BrowsingApplications"), Bool(TRUE)}}

\* A variant that looks at Status before it takes the list.
BrowseMessageStatusFirst(m, values) ==
  LET list == into_array(Get(m, "CurrentList"))
      st == as_string(Get(m, "Status"))
  IN IF st # None /\ st.v = "Complete" THEN [ret |-> Ok(values), values |-> values]
     ELSE IF list = None THEN [ret |-> Ok(values), values |-> values]
     ELSE [ret |-> NoResult, values |-> values \o list.v]
\* A variant that takes a message without a list for a protocol violation.
BrowseMessageStrict(m, values) ==
  LET list == into_array(Get(m, "CurrentList"))
      st == as_string(Get(m, "Status"))
  IN IF list = None THEN [ret |-> Err("UnexpectedResponse"), values |-> values]
     ELSE [ret |-> IF st # None /\ st.v = "Complete"
                   THEN Ok(values \o list.v) ELSE NoResult,
           values |-> values \o list.v]
\* One turn of the loop of browse on the message m, with `values` as
\* accumulated so far:
\*   ret     the value returned, NoResult when the loop reads on
\*   values  `values` after the turn
BrowseMessage(m, values) ==
  LET list == into_array(Get(m, "CurrentList"))
      st == as_string(Get(m, "Status"))
  IN IF list = None THEN [ret |-> Ok(values), values |-> values]
     ELSE [ret |-> IF st # None /\ st.v = "Complete"
                   THEN Ok(values \o list.v) ELSE NoResult,
           values |-> values \o list.v]

\* browse up to the write of the command.
BrowseCall ==
  /\ Begin("browse")
  /\ UNCHANGED <<uuids, invoked, stream, wire>>
  /\ reads' = 0 /\ res' = None /\ tlsUpgrades' = 0
  /\ local' = [values |-> <<>>]
  /\ \E options \in BrowseOptions, w \in SendOutcomes :
       /\ io' = Wrote(w)
       /\ IF w.st = "ok"
          THEN sent' = <<BrowseCommand(options)>> /\ Goto("browse")
          ELSE sent' = <<>> /\ Return(w)

\* loop: one read_plist and what follows it.  The device sends at most
\* MaxMsgs messages; then the connection ends.
BrowseRead ==
  /\ pc = "browse"
  /\ \E r \in ReadOutcomes(IF Len(hist) < MaxMsgs THEN BrowseMessages ELSE {}, {"Socket"}) :
       /\ reads' = reads + 1
       /\ io' = Read(r)
       /\ IF r.st = "err"
          THEN Return(r) /\ UNCHANGED <<res, hist, local>>
          ELSE LET step == BrowseMessage(r.val, local.values)
               IN /\ res' = r.val
                  /\ hist' = Append(hist, r.val)
                  /\ local' = [values |-> step.values]
                  /\ IF step.ret = NoResult THEN Goto("browse") ELSE Return(step.ret)
  /\ UNCHANGED <<client, rsd, uuids, invoked, stream, wire>>
  /\ UNCHANGED <<op, socket, sink, sent, tlsUpgrades>>

(***************************************************************************)
(* Profile management: MisagentClient (over the lockdown-style channel)    *)
(* and MisagentRsdClient (framed, over RSD)                                *)
(***************************************************************************)
Profiles == {"PROFILE-1"}
ProfileIds == {"UUID-1"}

InstallRequest(profile) ==
  [MessageType |-> Str("Install"), Profile |-> Data(profile),
   ProfileType |-> Str("Provisioning")]
RemoveRequest(id) ==
  [MessageType |-> Str("Remove"), ProfileID |-> Str(id),
   ProfileType |-> Str("Provisioning")]

\* The replies the device may give to install and remove.
StatusReplies ==
  {DictOf([Status |-> x]) :
     x \in {None, Integer(Num(-1)), Integer(Num(0)), Integer(Num(1)), Integer(Num(2)),
            Integer(BigNum(0)), Str("1"), Bool(TRUE)}}

\* A variant that takes the lockdown-style success value, 1.
RsdInstallStatusAsLockdown(r) ==
  LET status == Get(r, "Status")
  IN IF status.t = "Integer" /\ as_signed(status) # None
     THEN IF status.v = Num(1) THEN Ok(Unit) ELSE Err("MisagentFailure")
     ELSE Err("UnexpectedResponse")
\* MisagentRsdClient::install: the match on res.remove("Status").
RsdInstallStatus(r) ==
  LET status == Get(r, "Status")
  IN IF status.t = "Integer" /\ as_signed(status) # None
     THEN IF status.v = Num(0) THEN Ok(Unit) ELSE Err("MisagentFailure")
     ELSE Err("UnexpectedResponse")

\* MisagentRsdClient::remove: the match on res.remove("Status").
RsdRemoveStatus(r) ==
  LET status == Get(r, "Status")
  IN IF status.t = "Integer" /\ as_unsigned(status) # None
     THEN IF status.v = Num(1) THEN Ok(Unit) ELSE Err("MisagentFailure")
     ELSE Err("UnexpectedResponse")

\* A variant that takes every Status but 0 as success.
InstallStatusNonZero(r) ==
  LET status == Get(r, "Status")
  IN IF status.t = "Integer" /\ as_unsigned(status) # None
     THEN IF status.v # Num(0) THEN Ok(Unit) ELSE Err("MisagentFailure")
     ELSE Err("UnexpectedResponse")
\* MisagentClient::install: the match on res.remove("Status").
InstallStatus(r) ==
  LET status == Get(r, "Status")
  IN IF status.t = "Integer" /\ as_unsigned(status) # None
     THEN IF status.v = Num(1) THEN Ok(Unit) ELSE Err("MisagentFailure")
     ELSE Err("UnexpectedResponse")

\* MisagentClient::remove: the match on res.remove("Status").
RemoveStatus(r) ==
  LET status == Get(r, "Status")
  IN IF status.t = "Integer" /\ as_unsigned(status) # None
     THEN IF status.v = Num(1) THEN Ok(Unit) ELSE Err("MisagentFailure")
     ELSE Err("UnexpectedResponse")

\* MisagentClient::install / remove: the write of the request.
MisagentCall ==
  \E kind \in {"misagent_install", "misagent_remove"} :
    /\ Begin(kind)
    /\ UNCHANGED <<uuids, invoked, stream, wire>>
    /\ reads' = 0 /\ res' = None /\ tlsUpgrades' = 0 /\ local' = NoLocals
    /\ \E profile \in Profiles, id \in ProfileIds, w \in SendOutcomes :
         /\ io' = Wrote(w)
         /\ IF w.st = "ok"
            THEN /\ sent' = <<IF kind = "misagent_install" THEN InstallRequest(profile)
                              ELSE RemoveRequest(id)>>
                 /\ Goto("misagent_read")
            ELSE sent' = <<>> /\ Return(w)

\* MisagentClient::install / remove: the read of the reply and its Status.
MisagentRead ==
  /\ pc = "misagent_read"
  /\ \E r \in ReadOutcomes(StatusReplies, {"Socket"}) :
       /\ reads' = reads + 1
       /\ io' = Read(r)
       /\ IF r.st = "err"
          THEN Return(r) /\ UNCHANGED res
          ELSE /\ res' = r.val
               /\ Return(IF op = "misagent_install" THEN InstallStatus(r.val)
                         ELSE RemoveStatus(r.val))
  /\ UNCHANGED <<client, rsd, uuids, invoked, stream, wire>>
  /\ UNCHANGED <<op, socket, hist, sink, sent, tlsUpgrades, local>>

\* MisagentRsdClient::send_plist_request, after the frame was read and parsed.
SendPlistRequestResult(response) ==
  IF response.t = "Dictionary" THEN Ok(response.v) ELSE Err("UnexpectedResponse")

(***************************************************************************)
(* The framed stream of MisagentRsdClient.  A usize is written by its 8    *)
(* bytes and a u32 by its 4 bytes, most significant first, so that the     *)
(* lengths beyond 32 bits have a value in the model.                       *)
(***************************************************************************)
\* The usize k, for k < 2^16.
Usize(k) == <<0, 0, 0, 0, 0, 0, k \div 256, k % 256>>
\* n <= k, for k < 2^24.
AtMost(n, k) == (\A i \in 1..5 : n[i] = 0) /\ (n[6] * 256 + n[7]) * 256 + n[8] <= k
\* The number n, when n < 2^24.
Small(n) == (n[6] * 256 + n[7]) * 256 + n[8]
\* len as u32, and then to_be_bytes.
AsU32(n) == SubSeq(n, 5, 8)
\* u32::from_be_bytes(len_buf) as usize.
U32AsUsize(len_buf) == <<0, 0, 0, 0>> \o len_buf

\* The lengths the serialized request may have: 42, 65536, 2^32 - 1, 2^32 and
\* 2^32 + 42.
MessageLens ==
  {Usize(42), <<0, 0, 0, 0, 0, 1, 0, 0>>, <<0, 0, 0, 0, 255, 255, 255, 255>>,
   <<0, 0, 0, 1, 0, 0, 0, 0>>, <<0, 0, 0, 1, 0, 0, 0, 42>>}
\* The length of the binary plist of the check-in request.
CheckinLens == {Usize(90)}
\* The serialized request: the bytes of req, len of them.
Message(req, len) == [len |-> len, of |-> req]
\* The two write_all calls: the length header, then the message.
WriteFrame(message) == [header |-> AsU32(message.len), body |-> message]

\* The plist values of the model that have a serialized form, and the form
\* of each: a marker byte and the place of the value in this list.
Book ==
  <<DictV([Request |-> Str("RSDCheckin")]), DictV([Request |-> Str("StartService")]),
    DictV([Request |-> Integer(Num(2))]), Str("RSDCheckin"),
    DictV(DictOf([Status |-> None])),
    DictV(DictOf([Status |-> Integer(Num(-1))])),
    DictV(DictOf([Status |-> Integer(Num(0))])),
    DictV(DictOf([Status |-> Integer(Num(1))])),
    DictV(DictOf([Status |-> Integer(Num(2))])),
    DictV(DictOf([Status |-> Integer(BigNum(0))])),
    DictV(DictOf([Status |-> Str("1")])),
    DictV(DictOf([Status |-> Bool(TRUE)])),
    Str("OK"), Integer(Num(0)),
    DictV(DictOf([Payload |-> Str("PROFILE-1")])),
    DictV(DictOf([Payload |-> Array(<<>>)])),
    DictV(DictOf([Payload |-> Array(<<Data("PROFILE-1")>>)])),
    DictV(DictOf([Payload |-> Array(<<Data("PROFILE-1"), Str("PROFILE-2")>>)]))>>
ToBytes(x) == <<66, CHOOSE i \in DOMAIN Book : Book[i] = x>>
\* plist::from_bytes
FromBytes(buf) ==
  IF Len(buf) = 2 /\ buf[1] = 66 /\ buf[2] \in DOMAIN Book THEN Ok(Book[buf[2]])
  ELSE Err("Plist")

\* A variant that takes what has arrived and leaves the rest of the buffer as
\* it was allocated, zeroed.
ReadExactAvailable(s, n) ==
  IF AtMost(n, Len(s))
  THEN [out |-> Ok(SubSeq(s, 1, Small(n))), rest |-> SubSeq(s, Small(n) + 1, Len(s))]
  ELSE [out |-> Ok([i \in 1..Small(n) |-> IF i <= Len(s) THEN s[i] ELSE 0]),
        rest |-> <<>>]
\* read_exact of n bytes from a stream that delivers s and then ends: the n
\* bytes, or the error of a stream that ended early.
ReadExact(s, n) ==
  IF AtMost(n, Len(s))
  THEN [out |-> Ok(SubSeq(s, 1, Small(n))), rest |-> SubSeq(s, Small(n) + 1, Len(s))]
  ELSE [out |-> Err("Socket"), rest |-> <<>>]

\* The read of one frame: the header, the body it declares, the parse.
\*   out     the parsed value, or the error
\*   rest    what the stream delivers after it
\*   handed  the buffer given to plist::from_bytes, if any
RecvFrame(s) ==
  LET len_buf == ReadExact(s, Usize(4))
  IN IF len_buf.out.st = "err"
     THEN [out |-> len_buf.out, rest |-> len_buf.rest, handed |-> <<>>]
     ELSE LET response_len == U32AsUsize(len_buf.out.val)
              response_buf == ReadExact(len_buf.rest, response_len)
          IN IF response_buf.out.st = "err"
             THEN [out |-> response_buf.out, rest |-> response_buf.rest, handed |-> <<>>]
             ELSE [out |-> FromBytes(response_buf.out.val), rest |-> response_buf.rest,
                   handed |-> <<response_buf.out.val>>]

\* What the peer writes for one message, and the streams the peer may deliver
\* before it closes: whole frames, frames cut short, frames that do not parse.
Frame(body) == <<0, 0, 0, Len(body)>> \o body
Prefixes(s) == {SubSeq(s, 1, n) : n \in 0..Len(s)}
OddFrames ==
  {<<0, 0, 0, 2, 9, 9>>, <<0, 0, 0, 0>>, <<0, 0, 0, 1, 66, 1>>, <<0, 0, 1, 0, 66, 1>>,
   <<0, 1, 0, 0, 66, 1>>}

\* The locals of a call on the framed stream: the stream as the latest read
\* found it, the buffer that read gave to the parser, the outcomes of the reads.
FrameLocals == [before |-> <<>>, handed |-> <<>>, replies |-> <<>>]
AfterRecv(l, s, f) ==
  [before |-> s, handed |-> f.handed, replies |-> Append(l.replies, f.out)]

\* What the framed channel may deliver in reply to install and remove.
RsdResponses == {DictV(d) : d \in StatusReplies} \cup {Str("OK"), Integer(Num(0))}
RsdStreams == UNION {Prefixes(Frame(ToBytes(x))) : x \in RsdResponses} \cup OddFrames

\* No MisagentRsdClient yet: a stream that from_stream may be given.
NoRsdClient == [how |-> "none", checkin |-> <<>>]
\* MisagentRsdClient::new(socket): the client around the socket as it is.
New == [how |-> "new", checkin |-> <<>>]

\* MisagentRsdClient::install / remove: the write of the framed request on the
\* client's own stream.
RsdCall ==
  \E kind \in {"rsd_install", "rsd_remove"} :
    /\ Begin(kind)
    /\ rsd.how # "none"
    /\ UNCHANGED <<uuids, invoked>>
    /\ reads' = 0 /\ res' = None /\ tlsUpgrades' = 0 /\ local' = FrameLocals
    /\ \E profile \in Profiles, id \in ProfileIds, len \in MessageLens,
          w \in {Ok(Unit), Err("Socket")}, s \in RsdStreams :
         LET req == IF kind = "rsd_install" THEN InstallRequest(profile)
                    ELSE RemoveRequest(id)
         IN /\ io' = Wrote(w)
            /\ IF w.st = "ok"
               THEN /\ sent' = <<req>>
                    /\ wire' = <<WriteFrame(Message(req, len))>>
                    /\ stream' = s
                    /\ Goto("rsd_read")
               ELSE sent' = <<>> /\ wire' = <<>> /\ stream' = <<>> /\ Return(w)

\* MisagentRsdClient::install / remove: the read of the framed reply and its
\* Status.
RsdRead ==
  /\ pc = "rsd_read"
  /\ LET f == RecvFrame(stream)
         r == f.out
     IN /\ reads' = reads + 1
        /\ io' = Read(r)
        /\ stream' = f.rest
        /\ local' = AfterRecv(local, stream, f)
        /\ LET got == IF r.st = "ok" THEN SendPlistRequestResult(r.val) ELSE r
           IN IF got.st = "err"
              THEN Return(got) /\ UNCHANGED res
              ELSE /\ res' = got.val
                   /\ Return(IF op = "rsd_install" THEN RsdInstallStatus(got.val)
                             ELSE RsdRemoveStatus(got.val))
  /\ UNCHANGED <<client, rsd, uuids, invoked, wire>>
  /\ UNCHANGED <<op, socket, hist, sink, sent, tlsUpgrades>>

(***************************************************************************)
(* MisagentRsdClient::from_stream: the RSD check-in                        *)
(***************************************************************************)
CheckinRequest ==
  [Label |-> Str("misagent-rsd"), ProtocolVersion |-> Str("2"),
   Request |-> Str("RSDCheckin")]

\* What the peer may send during the check-in.
CheckinValues == {Book[i] : i \in 1..5}
CheckinStreams ==
  UNION {Prefixes(Frame(ToBytes(a)) \o Frame(ToBytes(b))) : a, b \in CheckinValues}
    \cup OddFrames
    \cup {Frame(ToBytes(Book[1])) \o g : g \in OddFrames}

\* A variant of the check that accepts every dictionary.
RequestIsAnything(response, name) == response.t = "Dictionary"
\* The check of a reply: a dictionary whose Request is the string name.
RequestIs(response, name) ==
  /\ response.t = "Dictionary"
  /\ as_string(Get(response.v, "Request")) = Str(name)

\* from_stream up to the write of the check-in request.
FromStreamCall ==
  /\ Begin("from_stream")
  /\ rsd.how = "none"
  /\ UNCHANGED <<uuids, invoked>>
  /\ reads' = 0 /\ res' = None /\ tlsUpgrades' = 0 /\ local' = FrameLocals
  /\ \E len \in CheckinLens, w \in {Ok(Unit), Err("Socket")}, s \in CheckinStreams :
       /\ io' = Wrote(w)
       /\ IF w.st = "ok"
          THEN /\ sent' = <<CheckinRequest>>
               /\ wire' = <<WriteFrame(Message(CheckinRequest, len))>>
               /\ stream' = s
               /\ Goto("fs_first")
          ELSE sent' = <<>> /\ wire' = <<>> /\ stream' = <<>> /\ Return(w)

\* A variant that makes the client once the first response is accepted.
FromStreamFirstOnly ==
  /\ pc = "fs_first"
  /\ LET f == RecvFrame(stream)
     IN /\ reads' = reads + 1
        /\ io' = Read(f.out)
        /\ stream' = f.rest
        /\ local' = AfterRecv(local, stream, f)
        /\ IF f.out.st = "err" THEN Return(f.out) /\ UNCHANGED rsd
           ELSE IF RequestIs(f.out.val, "RSDCheckin")
                THEN /\ rsd' = [how |-> "from_stream", checkin |-> Append(rsd.checkin, f.out.val)]
                     /\ Return(Ok("MisagentRsdClient"))
           ELSE Return(Err("UnexpectedResponse")) /\ UNCHANGED rsd
  /\ UNCHANGED <<client, uuids, invoked, wire>>
  /\ UNCHANGED <<op, socket, hist, sink, sent, res, tlsUpgrades>>
\* The read and the check of the first response.
FromStreamFirst ==
  /\ pc = "fs_first"
  /\ LET f == RecvFrame(stream)
     IN /\ reads' = reads + 1
        /\ io' = Read(f.out)
        /\ stream' = f.rest
        /\ local' = AfterRecv(local, stream, f)
        /\ IF f.out.st = "err" THEN Return(f.out) /\ UNCHANGED rsd
           ELSE IF RequestIs(f.out.val, "RSDCheckin")
                THEN /\ rsd' = [rsd EXCEPT !.checkin = Append(@, f.out.val)]
                     /\ Goto("fs_second")
           ELSE Return(Err("UnexpectedResponse")) /\ UNCHANGED rsd
  /\ UNCHANGED <<client, uuids, invoked, wire>>
  /\ UNCHANGED <<op, socket, hist, sink, sent, res, tlsUpgrades>>

\* The read and the check of the second response, and `Ok(Self { socket:
\* stream })`.
FromStreamSecond ==
  /\ pc = "fs_second"
  /\ LET f == RecvFrame(stream)
     IN /\ reads' = reads + 1
        /\ io' = Read(f.out)
        /\ stream' = f.rest
        /\ local' = AfterRecv(local, stream, f)
        /\ IF f.out.st = "err" THEN Return(f.out) /\ UNCHANGED rsd
           ELSE IF RequestIs(f.out.val, "StartService")
                THEN /\ rsd' = [how |-> "from_stream", checkin |-> Append(rsd.checkin, f.out.val)]
                     /\ Return(Ok("MisagentRsdClient"))
           ELSE Return(Err("UnexpectedResponse")) /\ UNCHANGED rsd
  /\ UNCHANGED <<client, uuids, invoked, wire>>
  /\ UNCHANGED <<op, socket, hist, sink, sent, res, tlsUpgrades>>

(***************************************************************************)
(* LockdownClient::get_value, get_all_values and start_service             *)
(***************************************************************************)
Keys == {"DeviceName"}
Domains == {None, Str("com.apple.mobile.battery")}
\* if let Some(domain) = domain { request.insert("Domain", ..) }
WithDomain(request, domain) ==
  IF domain = None THEN request ELSE Insert(request, "Domain", domain)
GetAllValuesRequest ==
  [Label |-> Str(Label), Request |-> Str("GetValue")]

\* What the device may put under Value.
DeviceValues ==
  {None, Str("iPhone"), Integer(Num(5)), Bool(TRUE),
   DictV([DeviceName |-> Str("iPhone")]), DictV(<<>>)}

\* A variant of get_all_values that takes a missing Value for an empty
\* dictionary.
GetAllValuesResultLax(message) ==
  IF Get(message, "Value") = None THEN Ok(<<>>)
  ELSE IF Get(message, "Value").t = "Dictionary" THEN Ok(Get(message, "Value").v)
  ELSE Err("Plist")
\* get_all_values: the match on message.get("Value"); plist::from_value turns
\* the value into a plist::Dictionary and fails on any other kind of value.
GetAllValuesResult(message) ==
  IF Get(message, "Value") = None THEN Err("UnexpectedResponse")
  ELSE IF Get(message, "Value").t = "Dictionary" THEN Ok(Get(message, "Value").v)
  ELSE Err("Plist")

\* get_value / get_all_values up to the write of the request.
GetValueCall ==
  \E kind \in {"get_value", "get_all_values"} :
    /\ Begin(kind)
    /\ UNCHANGED <<uuids, invoked, stream, wire>>
    /\ reads' = 0 /\ res' = None /\ tlsUpgrades' = 0 /\ local' = NoLocals
    /\ \E key \in Keys, domain \in Domains, w \in SendOutcomes :
         /\ io' = Wrote(w)
         /\ IF w.st = "ok"
            THEN /\ sent' = <<WithDomain(IF kind = "get_value" THEN GetValueRequest(key)
                                         ELSE GetAllValuesRequest, domain)>>
                 /\ Goto("gv_read")
            ELSE sent' = <<>> /\ Return(w)

\* get_value / get_all_values from the read of the reply on.
GetValueRead ==
  /\ pc = "gv_read"
  /\ \E r \in ReadOutcomes(GetValueReplies(DeviceValues), {"Socket", "GetProhibited"}) :
       /\ reads' = reads + 1
       /\ io' = Read(r)
       /\ IF r.st = "err"
          THEN Return(r) /\ UNCHANGED res
          ELSE /\ res' = r.val
               /\ Return(IF op = "get_value" THEN GetValueResult(r.val)
                         ELSE GetAllValuesResult(r.val))
  /\ UNCHANGED <<client, rsd, uuids, invoked, stream, wire>>
  /\ UNCHANGED <<op, socket, hist, sink, sent, tlsUpgrades, local>>

Services == {"com.apple.misagent"}
StartServiceRequest(identifier) ==
  [Request |-> Str("StartService"), Service |-> Str(identifier)]

\* The replies the device may give to StartService.
StartServiceReplies ==
  {DictOf([Port |-> p, EnableServiceSSL |-> e]) :
     p \in {None, Integer(Num(-1)), Integer(Num(0)), Integer(Num(49152)),
            Integer(Num(65535)), Integer(Num(65536)), Integer(Num(70000)),
            Integer(BigNum(80)), Str("49152"), Bool(TRUE)},
     e \in {None, Bool(TRUE), Bool(FALSE), Str("true"), Integer(Num(1))}}

\* A variant of the match that takes a missing flag for true.
ServiceSSLDefaultTrue(response) ==
  LET e == Get(response, "EnableServiceSSL")
  IN IF e.t = "Boolean" THEN e.v ELSE e = None
\* The match on response.get("EnableServiceSSL").
ServiceSSL(response) ==
  LET e == Get(response, "EnableServiceSSL")
  IN IF e.t = "Boolean" THEN e.v ELSE FALSE

\* port as u16: the low 16 bits of the u64 (2^63 is a multiple of 2^16).
AsU16(n) == n.lo % 65536

\* A variant of the match that takes a missing or ill-typed Port for port 0.
StartServiceResultAnyPort(response) ==
  LET port == Get(response, "Port")
  IN IF port.t = "Integer"
     THEN IF as_unsigned(port) # None
          THEN Ok([port |-> AsU16(port.v), ssl |-> ServiceSSL(response)])
          ELSE Err("UnexpectedResponse")
     ELSE Ok([port |-> 0, ssl |-> ServiceSSL(response)])
\* The match on response.get("Port").
StartServiceResult(response) ==
  LET port == Get(response, "Port")
  IN IF port.t = "Integer"
     THEN IF as_unsigned(port) # None
          THEN Ok([port |-> AsU16(port.v), ssl |-> ServiceSSL(response)])
          ELSE Err("UnexpectedResponse")
     ELSE Err("UnexpectedResponse")

\* start_service up to the write of the request.
StartServiceCall ==
  /\ Begin("start_service")
  /\ UNCHANGED <<uuids, invoked, stream, wire>>
  /\ reads' = 0 /\ res' = None /\ tlsUpgrades' = 0 /\ local' = NoLocals
  /\ \E identifier \in Services, w \in SendOutcomes :
       /\ io' = Wrote(w)
       /\ IF w.st = "ok"
          THEN sent' = <<StartServiceRequest(identifier)>> /\ Goto("svc_read")
          ELSE sent' = <<>> /\ Return(w)

\* start_service from the read of the reply on.
StartServiceRead ==
  /\ pc = "svc_read"
  /\ \E r \in ReadOutcomes(StartServiceReplies, {"Socket", "InvalidService"}) :
       /\ reads' = reads + 1
       /\ io' = Read(r)
       /\ IF r.st = "err"
          THEN Return(r) /\ UNCHANGED res
          ELSE res' = r.val /\ Return(StartServiceResult(r.val))
  /\ UNCHANGED <<client, rsd, uuids, invoked, stream, wire>>
  /\ UNCHANGED <<op, socket, hist, sink, sent, tlsUpgrades, local>>

(***************************************************************************)
(* core_device: the version structure and CoreDeviceServiceClient::invoke  *)
(* A string is the sequence of its characters where the code looks inside  *)
(* it; an XPC UInt64 is written by its decimal digits, so that every u64   *)
(* has a value in the model.                                               *)
(***************************************************************************)
\* invoke calls made on one client.
MaxInvokes == 3
\* Dot-separated segments of a version string.
MaxSegs == 3

Int64(n) == [t |-> "Int64", v |-> n]
UInt64(digits) == [t |-> "UInt64", v |-> digits]
XpcString(s) == [t |-> "String", v |-> s]
XpcArray(a) == [t |-> "Array", v |-> a]
XpcDictionary(d) == [t |-> "Dictionary", v |-> d]

CORE_SERVICE_VERSION == <<"4", "4", "3", ".", "1", "8">>

DigitVal ==
  [c \in {"0", "1", "2", "3", "4", "5", "6", "7", "8", "9"} |->
     CASE c = "0" -> 0 [] c = "1" -> 1 [] c = "2" -> 2 [] c = "3" -> 3 [] c = "4" -> 4
       [] c = "5" -> 5 [] c = "6" -> 6 [] c = "7" -> 7 [] c = "8" -> 8 [] OTHER -> 9]
\* u64::MAX, 18446744073709551615.
U64MaxDigits ==
  <<"1", "8", "4", "4", "6", "7", "4", "4", "0", "7",
    "3", "7", "0", "9", "5", "5", "1", "6", "1", "5">>

RECURSIVE StripZeros(_)
StripZeros(d) == IF Len(d) > 1 /\ d[1] = "0" THEN StripZeros(Tail(d)) ELSE d
\* a <= b for digit sequences of one length.
RECURSIVE DigitsLe(_, _)
DigitsLe(a, b) ==
  IF a = <<>> THEN TRUE
  ELSE IF DigitVal[a[1]] # DigitVal[b[1]] THEN DigitVal[a[1]] < DigitVal[b[1]]
  ELSE DigitsLe(Tail(a), Tail(b))
FitsU64(d) ==
  \/ Len(d) < Len(U64MaxDigits)
  \/ Len(d) = Len(U64MaxDigits) /\ DigitsLe(d, U64MaxDigits)

\* str::parse::<u64>: an optional '+', then one or more decimal digits, and
\* the value has to fit u64; Some(value) or None.
ParseU64(x) ==
  LET d == IF Len(x) > 0 /\ x[1] = "+" THEN Tail(x) ELSE x
  IN IF d = <<>> \/ \E i \in 1..Len(d) : d[i] \notin DOMAIN DigitVal THEN None
     ELSE IF FitsU64(StripZeros(d)) THEN UInt64(StripZeros(d))
     ELSE None

\* version.split('.')
RECURSIVE Split(_)
Split(s) ==
  IF \A i \in 1..Len(s) : s[i] # "." THEN <<s>>
  ELSE LET i == CHOOSE k \in 1..Len(s) : s[k] = "." /\ \A j \in 1..(k-1) : s[j] # "."
       IN <<SubSeq(s, 1, i-1)>> \o Split(SubSeq(s, i+1, Len(s)))

\* The for_each over the segments: the values of those that parse, in order.
RECURSIVE CollectVersion(_)
CollectVersion(segs) ==
  IF segs = <<>> THEN <<>>
  ELSE (IF ParseU64(Head(segs)) # None THEN <<ParseU64(Head(segs))>> ELSE <<>>)
         \o CollectVersion(Tail(segs))

\* A variant that reports the number of dot-separated segments.
CreateXpcVersionRawCount(version) ==
  [originalComponentsCount |-> Int64(Len(Split(version))),
   components |-> XpcArray(CollectVersion(Split(version))),
   stringValue |-> XpcString(version)]
create_xpc_version_from_string(version) ==
  LET collected_version == CollectVersion(Split(version))
  IN [originalComponentsCount |-> Int64(Len(collected_version)),
      components |-> XpcArray(collected_version),
      stringValue |-> XpcString(version)]

\* The segments the version strings of the model are made of.
Segments ==
  {<<"4", "4", "3">>, <<"1", "8">>, <<"1">>, <<"2">>, <<"a">>, <<>>, <<"1", "a">>,
   <<"+", "5">>, <<"-", "1">>, <<"0", "0", "7">>, <<"+">>,
   U64MaxDigits, SubSeq(U64MaxDigits, 1, 19) \o <<"6">>}
RECURSIVE Join(_)
Join(segs) ==
  IF Len(segs) = 1 THEN segs[1] ELSE segs[1] \o <<".">> \o Join(Tail(segs))
VersionStrings ==
  {Join(segs) : segs \in UNION {[1..n -> Segments] : n \in 1..MaxSegs}}

\* create_xpc_version_from_string called on any version string.
CreateXpcVersion ==
  /\ Begin("create_xpc_version_from_string")
  /\ \E version \in VersionStrings :
       /\ local' = [version |-> version]
       /\ Return(Ok(create_xpc_version_from_string(version)))
  /\ sent' = <<>> /\ reads' = 0 /\ io' = NoIo /\ res' = None /\ tlsUpgrades' = 0
  /\ UNCHANGED <<uuids, invoked, stream, wire>>

\* uuid::Uuid::new_v4().to_string(): the k-th UUID drawn after n others; a
\* version-4 UUID is taken to differ from every UUID drawn before it.
NewV4(n, k) == XpcString("uuid-" \o ToString(n + k))

Features == {"com.apple.coredevice.feature.listapps"}
Inputs == {None, DictV([bundleIdentifier |-> Str("com.example.app")])}

\* A variant that draws the invocation identifier once for the client.
InvokeRequestOneId(feature, input, n) ==
  ("CoreDevice.CoreDeviceDDIProtocolVersion" :> Int64(0))
    @@ ("CoreDevice.action" :> XpcDictionary(<<>>))
    @@ ("CoreDevice.coreDeviceVersion" :>
          XpcDictionary(create_xpc_version_from_string(CORE_SERVICE_VERSION)))
    @@ ("CoreDevice.deviceIdentifier" :> NewV4(n, 1))
    @@ ("CoreDevice.featureIdentifier" :> XpcString(feature))
    @@ ("CoreDevice.input" :> (IF input = None THEN DictV(<<>>) ELSE input))
    @@ ("CoreDevice.invocationIdentifier" :> NewV4(0, 2))
\* The envelope invoke builds when n UUIDs have been drawn before.
InvokeRequest(feature, input, n) ==
  ("CoreDevice.CoreDeviceDDIProtocolVersion" :> Int64(0))
    @@ ("CoreDevice.action" :> XpcDictionary(<<>>))
    @@ ("CoreDevice.coreDeviceVersion" :>
          XpcDictionary(create_xpc_version_from_string(CORE_SERVICE_VERSION)))
    @@ ("CoreDevice.deviceIdentifier" :> NewV4(n, 1))
    @@ ("CoreDevice.featureIdentifier" :> XpcString(feature))
    @@ ("CoreDevice.input" :> (IF input = None THEN DictV(<<>>) ELSE input))
    @@ ("CoreDevice.invocationIdentifier" :> NewV4(n, 2))

\* RemoteXpcClient::send_object: the transport decides.
SendObjectOutcomes == {Ok(Unit), Err("Socket")}

\* invoke up to the send of the envelope.
InvokeCall ==
  /\ Begin("invoke")
  /\ uuids < 2 * MaxInvokes
  /\ uuids' = uuids + 2
  /\ reads' = 0 /\ res' = None /\ tlsUpgrades' = 0 /\ local' = NoLocals
  /\ \E feature \in Features, input \in Inputs, w \in SendObjectOutcomes :
       LET req == InvokeRequest(feature, input, uuids)
       IN /\ io' = Wrote(w)
          /\ IF w.st = "ok"
             THEN sent' = <<req>> /\ invoked' = Append(invoked, req) /\ Goto("invoke_recv")
             ELSE sent' = <<>> /\ invoked' = invoked /\ Return(w)
  /\ UNCHANGED <<stream, wire>>

\* The replies RemoteXpcClient::recv may hand to invoke.
InvokeReplies ==
  {DictV(DictOf(("CoreDevice.output" :> o) @@ ("CoreDevice.error" :> e))) :
     o \in {None, Str("done"), Bool(FALSE), DictV([apps |-> Str("none")])},
     e \in {None, Str("denied")}}
    \cup {Str("CoreDevice.output"), Integer(Num(0)), Bool(TRUE)}

\* A variant that hands back the whole reply when it has no output.
InvokeResultWhole(res0) ==
  IF res0.t # "Dictionary" THEN Err("UnexpectedResponse")
  ELSE IF Get(res0.v, "CoreDevice.output") = None THEN Ok(res0)
  ELSE Ok(Get(res0.v, "CoreDevice.output"))
\* The two matches of invoke on the reply.
InvokeResult(res0) ==
  IF res0.t # "Dictionary" THEN Err("UnexpectedResponse")
  ELSE IF Get(res0.v, "CoreDevice.output") = None THEN Err("UnexpectedResponse")
  ELSE Ok(Get(res0.v, "CoreDevice.output"))

\* invoke from the receive of the reply on.  The object recv hands over is
\* the peer's answer to one of the envelopes sent on this connection
\* (reply_to); nothing in invoke looks at which one.
InvokeRecv ==
  /\ pc = "invoke_recv"
  /\ \E r \in ReadOutcomes(InvokeReplies, {"Socket"}), k \in DOMAIN invoked :
       /\ reads' = reads + 1
       /\ io' = Read(r)
       /\ IF r.st = "err"
          THEN Return(r) /\ UNCHANGED <<res, local>>
          ELSE /\ res' = r.val
               /\ local' = [reply_to |-> invoked[k]["CoreDevice.invocationIdentifier"]]
               /\ Return(InvokeResult(r.val))
  /\ UNCHANGED <<client, rsd, uuids, invoked, stream, wire>>
  /\ UNCHANGED <<op, socket, hist, sink, sent, tlsUpgrades>>

(***************************************************************************)
(* AppServiceClient::list_apps, on top of CoreDeviceServiceClient::invoke  *)
(***************************************************************************)
\* Elements of the array the device may put under CoreDevice.output.
MaxApps == 2

\* The five flags of a call.
ListAppsFlags ==
  {[app_clips |-> TRUE, removable_apps |-> TRUE, hidden_apps |-> TRUE,
    internal_apps |-> TRUE, default_apps |-> TRUE],
   [app_clips |-> FALSE, removable_apps |-> TRUE, hidden_apps |-> FALSE,
    internal_apps |-> FALSE, default_apps |-> TRUE]}
ListAppsOptions(f) ==
  DictV([includeAppClips |-> Bool(f.app_clips),
         includeRemovableApps |-> Bool(f.removable_apps),
         includeHiddenApps |-> Bool(f.hidden_apps),
         includeInternalApps |-> Bool(f.internal_apps),
         includeDefaultApps |-> Bool(f.default_apps)])

\* What the device may send as one element of the list.
AppEntry(name, hidden, bundleVersion, version) ==
  DictV(DictOf([isRemovable |-> Bool(TRUE), name |-> name, isFirstParty |-> Bool(FALSE),
                path |-> Str("/private/var/containers/Bundle/Application/A"),
                bundleIdentifier |-> Str("com.example.app"),
                isDeveloperApp |-> Bool(TRUE), bundleVersion |-> bundleVersion,
                isInternal |-> Bool(FALSE), isHidden |-> hidden,
                isAppClip |-> Bool(FALSE), version |-> version]))
AppEntries ==
  {AppEntry(Str("Notes"), Bool(FALSE), Str("12"), Str("1.2")),
   AppEntry(Str("Maps"), Bool(TRUE), None, None),
   AppEntry(None, Bool(FALSE), Str("12"), Str("1.2")),
   AppEntry(Str("Notes"), Str("no"), Str("12"), Str("1.2")),
   AppEntry(Str("Notes"), Bool(FALSE), Str("12"), Integer(Num(1))),
   Str("Notes")}

\* The fields of AppListEntry, by their serde names.
RequiredBools ==
  {"isRemovable", "isFirstParty", "isDeveloperApp", "isInternal", "isHidden", "isAppClip"}
RequiredStrings == {"name", "path", "bundleIdentifier"}
OptionalStrings == {"bundleVersion", "version"}
\* plist::from_value::<AppListEntry>: the derived Deserialize.
FromValueAppListEntry(r) ==
  IF r.t # "Dictionary" THEN Err("Plist")
  ELSE IF /\ \A k \in RequiredBools : Get(r.v, k).t = "Boolean"
          /\ \A k \in RequiredStrings : Get(r.v, k).t = "String"
          /\ \A k \in OptionalStrings : Get(r.v, k).t \in {"None", "String"}
  THEN Ok([is_removable |-> r.v["isRemovable"].v, name |-> r.v["name"].v,
           is_first_party |-> r.v["isFirstParty"].v, path |-> r.v["path"].v,
           bundle_identifier |-> r.v["bundleIdentifier"].v,
           is_developer_app |-> r.v["isDeveloperApp"].v,
           bundle_version |-> Get(r.v, "bundleVersion"),
           is_internal |-> r.v["isInternal"].v, is_hidden |-> r.v["isHidden"].v,
           is_app_clip |-> r.v["isAppClip"].v, version |-> Get(r.v, "version")])
  ELSE Err("Plist")

\* for r in res: the first element that does not decode ends the call.
RECURSIVE DecodeAll(_)
DecodeAll(a) ==
  IF a = <<>> THEN Ok(<<>>)
  ELSE LET r == FromValueAppListEntry(Head(a))
       IN IF r.st = "err" THEN Err("UnexpectedResponse")
          ELSE LET rest == DecodeAll(Tail(a))
               IN IF rest.st = "err" THEN rest ELSE Ok(<<r.val>> \o rest.val)

\* A variant of list_apps that returns the elements that decode.
ListAppsResultSkipping(res0) ==
  IF res0.st = "err" THEN res0
  ELSE IF res0.val.t # "Array" THEN Err("UnexpectedResponse")
  ELSE LET good == SelectSeq(res0.val.v, LAMBDA x : FromValueAppListEntry(x).st = "ok")
       IN Ok([i \in 1..Len(good) |-> FromValueAppListEntry(good[i]).val])
\* list_apps after invoke has returned res0.
ListAppsResult(res0) ==
  IF res0.st = "err" THEN res0
  ELSE IF res0.val.t # "Array" THEN Err("UnexpectedResponse")
  ELSE DecodeAll(res0.val.v)

\* The replies recv may hand to the invoke of list_apps.
ListAppsOutputs ==
  {Array(a) : a \in UNION {[1..n -> AppEntries] : n \in 0..MaxApps}}
    \cup {None, Str("done"), DictV([apps |-> Array(<<>>)])}
ListAppsReplies ==
  {DictV(DictOf("CoreDevice.output" :> o)) : o \in ListAppsOutputs}
    \cup {Array(<<AppEntry(Str("Notes"), Bool(FALSE), Str("12"), Str("1.2"))>>)}

\* list_apps up to the send of the envelope.
ListAppsCall ==
  /\ Begin("list_apps")
  /\ uuids < 2 * MaxInvokes
  /\ uuids' = uuids + 2
  /\ reads' = 0 /\ res' = None /\ tlsUpgrades' = 0 /\ local' = NoLocals
  /\ \E f \in ListAppsFlags, w \in SendObjectOutcomes :
       LET req == InvokeRequest("com.apple.coredevice.feature.listapps",
                                ListAppsOptions(f), uuids)
       IN /\ io' = Wrote(w)
          /\ IF w.st = "ok"
             THEN sent' = <<req>> /\ invoked' = Append(invoked, req) /\ Goto("list_apps_recv")
             ELSE sent' = <<>> /\ invoked' = invoked /\ Return(w)
  /\ UNCHANGED <<stream, wire>>

\* list_apps from the receive of the reply on.
ListAppsRecv ==
  /\ pc = "list_apps_recv"
  /\ \E r \in ReadOutcomes(ListAppsReplies, {"Socket"}) :
       /\ reads' = reads + 1
       /\ io' = Read(r)
       /\ IF r.st = "err"
          THEN Return(r) /\ UNCHANGED res
          ELSE res' = r.val /\ Return(ListAppsResult(InvokeResult(r.val)))
  /\ UNCHANGED <<client, rsd, uuids, invoked, stream, wire>>
  /\ UNCHANGED <<op, socket, hist, sink, sent, tlsUpgrades, local>>

(***************************************************************************)
(* AppServiceClient::uninstall_app                                         *)
(***************************************************************************)
BundleIds == {"com.example.app"}
UninstallAppInput(bundle_id) == DictV([bundleIdentifier |-> Str(bundle_id)])

\* A variant that takes an output of false for a failure.
UninstallAppResultChecksOutput(res0) ==
  IF res0.st = "err" THEN res0
  ELSE IF res0.val = Bool(FALSE) THEN Err("UnexpectedResponse")
  ELSE Ok(Unit)
\* uninstall_app after invoke has returned res0: `?`, then Ok(()).
UninstallAppResult(res0) ==
  IF res0.st = "err" THEN res0 ELSE Ok(Unit)

\* uninstall_app up to the send of the envelope.
UninstallAppCall ==
  /\ Begin("uninstall_app")
  /\ uuids < 2 * MaxInvokes
  /\ uuids' = uuids + 2
  /\ reads' = 0 /\ res' = None /\ tlsUpgrades' = 0 /\ local' = NoLocals
  /\ \E bundle_id \in BundleIds, w \in SendObjectOutcomes :
       LET req == InvokeRequest("com.apple.coredevice.feature.uninstallapp",
                                UninstallAppInput(bundle_id), uuids)
       IN /\ io' = Wrote(w)
          /\ IF w.st = "ok"
             THEN /\ sent' = <<req>> /\ invoked' = Append(invoked, req)
                  /\ Goto("uninstall_app_recv")
             ELSE sent' = <<>> /\ invoked' = invoked /\ Return(w)
  /\ UNCHANGED <<stream, wire>>

\* uninstall_app from the receive of the reply on.
UninstallAppRecv ==
  /\ pc = "uninstall_app_recv"
  /\ \E r \in ReadOutcomes(InvokeReplies, {"Socket"}) :
       /\ reads' = reads + 1
       /\ io' = Read(r)
       /\ IF r.st = "err"
          THEN Return(r) /\ UNCHANGED res
          ELSE res' = r.val /\ Return(UninstallAppResult(InvokeResult(r.val)))
  /\ UNCHANGED <<client, rsd, uuids, invoked, stream, wire>>
  /\ UNCHANGED <<op, socket, hist, sink, sent, tlsUpgrades, local>>

(***************************************************************************)
(* LockdownClient::set_value, and copy_all of the two misagent clients     *)
(***************************************************************************)
SetValues == {Bool(TRUE), Str("iPhone")}
SetValueRequest(key, value) ==
  [Label |-> Str(Label), Request |-> Str("SetValue"), Key |-> Str(key), Value |-> value]
\* What the device may answer to SetValue.
SetValueReplies == GetValueReplies({None, Bool(TRUE), Str("iPhone")})

\* A variant that returns once the request is written.
SetValueCallNoRead ==
  /\ Begin("set_value")
  /\ UNCHANGED <<uuids, invoked, stream, wire>>
  /\ reads' = 0 /\ res' = None /\ tlsUpgrades' = 0 /\ local' = NoLocals
  /\ \E key \in Keys, value \in SetValues, domain \in Domains, w \in SendOutcomes :
       /\ io' = Wrote(w)
       /\ IF w.st = "ok"
          THEN /\ sent' = <<WithDomain(SetValueRequest(key, value), domain)>>
               /\ Return(Ok(Unit))
          ELSE sent' = <<>> /\ Return(w)
\* set_value up to the write of the request.
SetValueCall ==
  /\ Begin("set_value")
  /\ UNCHANGED <<uuids, invoked, stream, wire>>
  /\ reads' = 0 /\ res' = None /\ tlsUpgrades' = 0 /\ local' = NoLocals
  /\ \E key \in Keys, value \in SetValues, domain \in Domains, w \in SendOutcomes :
       /\ io' = Wrote(w)
       /\ IF w.st = "ok"
          THEN /\ sent' = <<WithDomain(SetValueRequest(key, value), domain)>>
               /\ Goto("sv_read")
          ELSE sent' = <<>> /\ Return(w)

\* set_value: the read of the reply, which is dropped.
SetValueRead ==
  /\ pc = "sv_read"
  /\ \E r \in ReadOutcomes(SetValueReplies, {"Socket", "SetProhibited"}) :
       /\ reads' = reads + 1
       /\ io' = Read(r)
       /\ IF r.st = "err"
          THEN Return(r) /\ UNCHANGED res
          ELSE res' = r.val /\ Return(Ok(Unit))
  /\ UNCHANGED <<client, rsd, uuids, invoked, stream, wire>>
  /\ UNCHANGED <<op, socket, hist, sink, sent, tlsUpgrades, local>>

CopyAllRequest == [MessageType |-> Str("CopyAll"), ProfileType |-> Str("Provisioning")]
\* What the device may put under Payload.
Payloads ==
  {None, Str("PROFILE-1"), Array(<<>>), Array(<<Data("PROFILE-1")>>),
   Array(<<Data("PROFILE-1"), Str("PROFILE-2")>>)}
CopyAllReplies == {DictOf([Payload |-> x]) : x \in Payloads}
\* copy_all: the match on res.remove("Payload") and the loop over the array.
CopyAllResult(r) ==
  LET a == Get(r, "Payload")
  IN IF a.t = "Array"
     THEN IF \A i \in DOMAIN a.v : as_data(a.v[i]) # None
          THEN Ok([i \in DOMAIN a.v |-> a.v[i].v])
          ELSE Err("UnexpectedResponse")
     ELSE Err("UnexpectedResponse")

\* MisagentClient::copy_all: the write of the request.
CopyAllCall ==
  /\ Begin("misagent_copy_all")
  /\ UNCHANGED <<uuids, invoked, stream, wire>>
  /\ reads' = 0 /\ res' = None /\ tlsUpgrades' = 0 /\ local' = NoLocals
  /\ \E w \in SendOutcomes :
       /\ io' = Wrote(w)
       /\ IF w.st = "ok"
          THEN sent' = <<CopyAllRequest>> /\ Goto("copy_all_read")
          ELSE sent' = <<>> /\ Return(w)

\* MisagentClient::copy_all: the read of the reply and its Payload.
CopyAllRead ==
  /\ pc = "copy_all_read"
  /\ \E r \in ReadOutcomes(CopyAllReplies, {"Socket"}) :
       /\ reads' = reads + 1
       /\ io' = Read(r)
       /\ IF r.st = "err"
          THEN Return(r) /\ UNCHANGED res
          ELSE res' = r.val /\ Return(CopyAllResult(r.val))
  /\ UNCHANGED <<client, rsd, uuids, invoked, stream, wire>>
  /\ UNCHANGED <<op, socket, hist, sink, sent, tlsUpgrades, local>>

\* What the framed channel may deliver in reply to copy_all.
RsdCopyAllStreams ==
  UNION {Prefixes(Frame(ToBytes(DictV(d)))) : d \in CopyAllReplies}
    \cup UNION {Prefixes(Frame(ToBytes(x))) : x \in {Str("OK")}}
    \cup OddFrames

\* MisagentRsdClient::copy_all: the write of the framed request.
RsdCopyAllCall ==
  /\ Begin("rsd_copy_all")
  /\ rsd.how # "none"
  /\ UNCHANGED <<uuids, invoked>>
  /\ reads' = 0 /\ res' = None /\ tlsUpgrades' = 0 /\ local' = FrameLocals
  /\ \E len \in MessageLens, w \in {Ok(Unit), Err("Socket")}, s \in RsdCopyAllStreams :
       /\ io' = Wrote(w)
       /\ IF w.st = "ok"
          THEN /\ sent' = <<CopyAllRequest>>
               /\ wire' = <<WriteFrame(Message(CopyAllRequest, len))>>
               /\ stream' = s
               /\ Goto("rsd_copy_all_read")
          ELSE sent' = <<>> /\ wire' = <<>> /\ stream' = <<>> /\ Return(w)

\* MisagentRsdClient::copy_all: the read of the framed reply and its Payload.
RsdCopyAllRead ==
  /\ pc = "rsd_copy_all_read"
  /\ LET f == RecvFrame(stream)
         r == f.out
     IN /\ reads' = reads + 1
        /\ io' = Read(r)
        /\ stream' = f.rest
        /\ local' = AfterRecv(local, stream, f)
        /\ LET got == IF r.st = "ok" THEN SendPlistRequestResult(r.val) ELSE r
           IN IF got.st = "err"
              THEN Return(got) /\ UNCHANGED res
              ELSE res' = got.val /\ Return(CopyAllResult(got.val))
  /\ UNCHANGED <<client, rsd, uuids, invoked, wire>>
  /\ UNCHANGED <<op, socket, hist, sink, sent, tlsUpgrades>>

(***************************************************************************)
(* IdeviceService::connect of InstallationProxyClient and MisagentClient:  *)
(* the lockdown connection, start_session and start_service on it, the     *)
(* dial of the service port and the upgrade of the service connection.     *)
(* The provider (connect, get_pairing_file) and Idevice::start_session     *)
(* are collaborators; each may succeed or fail.                            *)
(***************************************************************************)
ConnectServices ==
  [InstallationProxyClient |-> "com.apple.mobile.installation_proxy",
   MisagentClient |-> "com.apple.misagent"]
LOCKDOWND_PORT == 62078

\* provider.connect(port), provider.get_pairing_file(), Idevice::start_session.
ProviderConnectOutcomes == {Ok(Unit), Err("Socket")}
GetPairingFileOutcomes == {Ok(pf) : pf \in PairingFiles} \cup {Err("InvalidPairingFile")}
IdeviceStartSessionOutcomes == {Ok(Unit), Err("Rustls")}

\* A variant of `?` that goes on after an error as well.
ProceedsAlways(r) == TRUE
\* `.await?`: the sequence goes on only after Ok.
Proceeds(r) == r.st = "ok"
\* A variant that upgrades every service connection.
UpgradeAlways(ssl) == TRUE
\* if ssl { idevice.start_session(..) }
UpgradeWanted(ssl) == ssl

ConnectLocals(service) ==
  [service |-> service, session |-> NoResult, started |-> NoResult,
   dialed |-> <<>>, upgrades |-> <<>>]

\* LockdownClient::connect, get_pairing_file and start_session up to the
\* write of its request.
ConnectCall ==
  /\ Begin("connect")
  /\ UNCHANGED <<uuids, invoked, stream, wire>>
  /\ reads' = 0 /\ res' = None /\ tlsUpgrades' = 0
  /\ \E service \in DOMAIN ConnectServices, c \in ProviderConnectOutcomes,
        g \in GetPairingFileOutcomes, w \in {Ok(Unit), Err("Socket")} :
       /\ local' = [ConnectLocals(service) EXCEPT
                      !.dialed = <<[port |-> LOCKDOWND_PORT, out |-> c]>>]
       /\ IF c.st = "err" THEN Return(c) /\ sent' = <<>> /\ io' = NoIo
          ELSE IF g.st = "err" THEN Return(g) /\ sent' = <<>> /\ io' = NoIo
          ELSE /\ io' = Wrote(w)
               /\ IF w.st = "ok"
                  THEN sent' = <<StartSessionRequest(g.val)>> /\ Goto("cn_session")
                  ELSE sent' = <<>> /\ Return(w)

\* What follows start_session with outcome s: its `?`, then start_service up
\* to the write of its request.  last is the latest read or write so far.
AfterSession(s, last) ==
  /\ local' = [local EXCEPT !.session = s]
  /\ IF Proceeds(s)
     THEN \E w \in {Ok(Unit), Err("Socket")} :
            /\ io' = Wrote(w)
            /\ IF w.st = "ok"
               THEN /\ sent' = Append(sent, StartServiceRequest(ConnectServices[local.service]))
                    /\ Goto("cn_service")
               ELSE UNCHANGED sent /\ Return(w)
     ELSE io' = last /\ UNCHANGED sent /\ Return(s)

\* start_session: the read of the reply and the check of EnableSessionSSL.
ConnectSessionRead ==
  /\ pc = "cn_session"
  /\ \E r \in ReadOutcomes(StartSessionReplies, {"Socket", "InvalidHostID"}) :
       /\ reads' = reads + 1
       /\ res' = IF r.st = "ok" THEN r.val ELSE res
       /\ IF r.st = "err" THEN AfterSession(r, Read(r))
          ELSE IF SessionSSLEnabled(r.val)
               THEN Goto("cn_session_tls") /\ io' = Read(r) /\ UNCHANGED <<sent, local>>
               ELSE AfterSession(Err("UnexpectedResponse"), Read(r))
  /\ UNCHANGED <<client, rsd, uuids, invoked, stream, wire>>
  /\ UNCHANGED <<op, socket, hist, sink, tlsUpgrades>>

\* start_session: the TLS upgrade of the lockdown connection.
ConnectSessionTls ==
  /\ pc = "cn_session_tls"
  /\ tlsUpgrades' = tlsUpgrades + 1
  /\ \E t \in IdeviceStartSessionOutcomes : AfterSession(t, io)
  /\ UNCHANGED <<client, rsd, uuids, invoked, stream, wire>>
  /\ UNCHANGED <<op, socket, hist, sink, reads, res>>

\* start_service: the read of the reply; then the dial of the port, the
\* upgrade when ssl, and the client.
ConnectServiceRead ==
  /\ pc = "cn_service"
  /\ \E r \in ReadOutcomes(StartServiceReplies, {"Socket", "InvalidService"}),
        c \in ProviderConnectOutcomes, g \in GetPairingFileOutcomes,
        t \in IdeviceStartSessionOutcomes :
       LET s == IF r.st = "ok" THEN StartServiceResult(r.val) ELSE r
       IN /\ reads' = reads + 1
          /\ io' = Read(r)
          /\ res' = IF r.st = "ok" THEN r.val ELSE res
          /\ IF s.st = "err"
             THEN Return(s) /\ local' = [local EXCEPT !.started = s]
             ELSE IF c.st = "err"
             THEN /\ Return(c)
                  /\ local' = [local EXCEPT !.started = s,
                                 !.dialed = Append(@, [port |-> s.val.port, out |-> c])]
             ELSE IF ~UpgradeWanted(s.val.ssl)
             THEN /\ Return(Ok(local.service))
                  /\ local' = [local EXCEPT !.started = s,
                                 !.dialed = Append(@, [port |-> s.val.port, out |-> c])]
             ELSE IF g.st = "err"
             THEN /\ Return(g)
                  /\ local' = [local EXCEPT !.started = s,
                                 !.dialed = Append(@, [port |-> s.val.port, out |-> c])]
             ELSE /\ Return(IF t.st = "ok" THEN Ok(local.service) ELSE t)
                  /\ local' = [local EXCEPT !.started = s,
                                 !.dialed = Append(@, [port |-> s.val.port, out |-> c]),
                                 !.upgrades = <<t>>]
  /\ UNCHANGED <<client, rsd, uuids, invoked, stream, wire>>
  /\ UNCHANGED <<op, socket, hist, sink, sent, tlsUpgrades>>

(***************************************************************************)
(* The caller                                                              *)
(***************************************************************************)
\* The call has returned; its locals are dropped and the client is free for
\* the next call.
Finish ==
  /\ pc = "done"
  /\ pc' = "idle"
  /\ op' = "none"
  /\ sent' = <<>>
  /\ reads' = 0
  /\ io' = NoIo
  /\ res' = None
  /\ result' = NoResult
  /\ tlsUpgrades' = 0
  /\ local' = NoLocals
  /\ hist' = <<>>
  /\ sink' = <<>>
  /\ stream' = <<>>
  /\ wire' = <<>>
  /\ rsd' = IF rsd.how = "none" THEN NoRsdClient ELSE rsd
  /\ UNCHANGED <<socket, client, uuids, invoked>>

(***************************************************************************)
(* The client                                                              *)
(***************************************************************************)
Init ==
  /\ pc = "idle"
  /\ op = "none"
  /\ socket \in BOOLEAN
  /\ sent = <<>>
  /\ reads = 0
  /\ io = NoIo
  /\ res = None
  /\ result = NoResult
  /\ tlsUpgrades = 0
  /\ local = NoLocals
  /\ hist = <<>>
  /\ sink = <<>>
  /\ client \in Clients
  /\ uuids = 0
  /\ invoked = <<>>
  /\ stream = <<>>
  /\ wire = <<>>
  /\ rsd \in IF client = "MisagentRsdClient" THEN {NoRsdClient, New} ELSE {NoRsdClient}

Next ==
  \/ StartSessionCall
  \/ StartSessionRead
  \/ StartSessionTls
  \/ PairCall
  \/ PairPubKey
  \/ PairWifi
  \/ PairSend
  \/ PairRead
  \/ PairSleep
  \/ InstallCall
  \/ WatchRead
  \/ WatchCallback
  \/ BrowseCall
  \/ BrowseRead
  \/ MisagentCall
  \/ MisagentRead
  \/ RsdCall
  \/ RsdRead
  \/ FromStreamCall
  \/ FromStreamFirst
  \/ FromStreamSecond
  \/ GetValueCall
  \/ GetValueRead
  \/ StartServiceCall
  \/ StartServiceRead
  \/ CreateXpcVersion
  \/ InvokeCall
  \/ InvokeRecv
  \/ ListAppsCall
  \/ ListAppsRecv
  \/ UninstallAppCall
  \/ UninstallAppRecv
  \/ SetValueCall
  \/ SetValueRead
  \/ CopyAllCall
  \/ CopyAllRead
  \/ RsdCopyAllCall
  \/ RsdCopyAllRead
  \/ ConnectCall
  \/ ConnectSessionRead
  \/ ConnectSessionTls
  \/ ConnectServiceRead
  \/ Finish

Spec == Init /\ [][Next]_vars

(***************************************************************************)
(* The claims                                                              *)
(***************************************************************************)
InPairLoop == op = "pair" /\ "req" \in DOMAIN local
\* The Pair requests the running call has written.
PairRequestsSent == SelectSeq(sent, LAMBDA q : q.Request = Str("Pair"))
\* The latest read or write of the call ended with an error other than Pending.
IoFailedNotPending == io.kind # "none" /\ io.out.st = "err" /\ io.out.err # Pending
\* The latest read of the pair loop gave r.
LoopRead == InPairLoop /\ io.kind = "read" /\ reads >= 3

HasText(m, k) == k \in DOMAIN m /\ m[k].t = "String"
HasUInt(m, k) == k \in DOMAIN m /\ m[k].t = "Integer" /\ (m[k].v.hi = 1 \/ m[k].v.lo >= 0)
IsComplete(m) == "Status" \in DOMAIN m /\ m["Status"] = Str("Complete")
LastMsg == hist[Len(hist)]

\* C1: a StartSession reply whose EnableSessionSSL is absent, not a boolean or
\* false makes start_session return UnexpectedResponse, and the TLS upgrade is
\* not attempted in that call.
C1_NoUpgradeUnlessEnabled ==
  (op = "start_session" /\ io.kind = "read" /\ io.out.st = "ok"
     /\ Get(io.out.val, "EnableSessionSSL") # Bool(TRUE))
    => (pc = "done" /\ result = Err("UnexpectedResponse") /\ tlsUpgrades = 0)
C1_Witness ==
  /\ op = "start_session" /\ pc = "done"
  /\ io.kind = "read" /\ io.out.st = "ok"
  /\ Get(io.out.val, "EnableSessionSSL") = Str("true")
  /\ result = Err("UnexpectedResponse")

\* C2: in pair a Pending reply is never returned to the caller; it is followed
\* by a sleep and the same Pair request again, so that after k Pending replies
\* and one other reply exactly k+1 identical Pair requests were written and the
\* caller gets the outcome of the last one.
C2_PendingIsRetried ==
  InPairLoop =>
    /\ result # Err(Pending)
    /\ \A i \in 1..Len(PairRequestsSent) : PairRequestsSent[i] = PairRequestsSent[1]
    /\ Len(sent) = Len(PairRequestsSent) + 2
    /\ (pc = "done" /\ io.kind = "read") =>
         /\ Len(PairRequestsSent) = local.pendings + 1
         /\ local.sleeps = local.pendings
         /\ io.out.st = "err" => result = io.out
         /\ io.out.st = "ok" => result.st = "ok"
C2_Witness ==
  /\ InPairLoop /\ pc = "done" /\ io.kind = "read"
  /\ local.pendings = 2
  /\ result.st = "ok"

\* C3: in pair an error other than Pending, from the write of the Pair request
\* or from the read of its reply, is returned when it first occurs, and nothing
\* is written after it.
C3_OtherErrorsAbort ==
  (InPairLoop /\ IoFailedNotPending) => (pc = "done" /\ result = io.out)
C3_Witness ==
  /\ InPairLoop /\ pc = "done" /\ io.kind = "read"
  /\ local.pendings = 1
  /\ result = Err("UserDeniedPairing")

\* C4: the retry loop of pair has no retry limit: after n Pending replies the
\* call is still in the loop and writes request n+1, and it has returned exactly
\* when the latest outcome was not Pending.
C4_NoRetryLimit ==
  InPairLoop =>
    /\ pc \in {"pair_send", "pair_read", "pair_sleep", "done"}
    /\ pc = "pair_read" => Len(PairRequestsSent) = local.pendings + 1
    /\ pc \in {"pair_send", "pair_sleep"} => Len(PairRequestsSent) = local.pendings
    /\ (LoopRead /\ io.out = Err(Pending)) => pc \in {"pair_sleep", "pair_send"}
    /\ (LoopRead /\ io.out # Err(Pending)) => pc = "done"
    /\ pc = "done" => (io.out.st = "ok" \/ io.out.err # Pending)
C4_Witness ==
  /\ InPairLoop /\ pc = "pair_read"
  /\ local.pendings = MaxPending
  /\ Len(PairRequestsSent) = MaxPending + 1

\* C5 as stated: the progress sink is invoked once for each message that
\* contains PercentComplete, in order and with its percent.
C5_SinkPerPercentMessage ==
  op \in WatchOps =>
    LET with == SelectSeq(hist, LAMBDA m : HasUInt(m, "PercentComplete"))
    IN /\ Len(sink) = Len(with)
       /\ \A i \in 1..Len(with) : sink[i].percent = with[i]["PercentComplete"].v
\* C5 (amended): the progress sink is invoked once for each message that has no
\* ErrorDescription text and an unsigned PercentComplete, in the order of
\* arrival and with that percent; nothing is read, and so the sink is not
\* invoked, after a message that completes or fails the operation.
C5_SinkFollowsStream ==
  op \in WatchOps =>
    LET with == SelectSeq(hist, LAMBDA m : HasUInt(m, "PercentComplete")
                                           /\ ~HasText(m, "ErrorDescription"))
    IN /\ Len(sink) = Len(with)
       /\ \A i \in 1..Len(with) : sink[i].percent = with[i]["PercentComplete"].v
       /\ \A i \in 1..(Len(hist) - 1) :
            ~HasText(hist[i], "ErrorDescription") /\ ~IsComplete(hist[i])
       /\ pc = "done" => reads \in {Len(hist), Len(hist) + 1}
C5_Witness ==
  /\ op = "install" /\ pc = "done" /\ result = Ok(Unit)
  /\ Len(sink) = 2 /\ sink[1].percent = Num(10) /\ sink[2].percent = Num(50)

\* C6: a message with an ErrorDescription text makes the operation fail with
\* InstallationProxyOperationFailed carrying that text, and the call reads no
\* further message.
C6_ErrorDescriptionFails ==
  (op \in WatchOps /\ Len(hist) > 0) =>
    /\ HasText(LastMsg, "ErrorDescription") =>
         /\ pc = "done"
         /\ result = ErrMsg("InstallationProxyOperationFailed",
                            LastMsg["ErrorDescription"].v)
         /\ reads = Len(hist)
    /\ \A i \in 1..(Len(hist) - 1) : ~HasText(hist[i], "ErrorDescription")
C6_Witness ==
  /\ op = "install" /\ pc = "done" /\ Len(hist) = 1 /\ reads = 1
  /\ HasText(LastMsg, "ErrorDescription")
  /\ result = ErrMsg("InstallationProxyOperationFailed", "disk full")

\* The call went on to read after the last message of hist: it is about to
\* read, or that read failed.
ReadsOn ==
  \/ pc = "watch"
  \/ pc = "watch_callback" /\ local.awaiting = NoResult
  \/ pc = "done" /\ reads = Len(hist) + 1 /\ result = io.out

\* C7 as stated: success only after a message whose Status is "Complete"; a
\* message with another Status, or none, never ends the operation.
C7_OnlyCompleteEnds ==
  (op \in WatchOps /\ Len(hist) > 0) =>
    /\ result.st = "ok" => IsComplete(LastMsg)
    /\ ~IsComplete(LastMsg) => ReadsOn
\* C7 (amended): success only after a message whose Status is "Complete"; a
\* message with no ErrorDescription text and with another Status, or none,
\* never ends the operation: the next message is read.
C7_OnlyCompleteSucceeds ==
  (op \in WatchOps /\ Len(hist) > 0) =>
    /\ result.st = "ok" => (IsComplete(LastMsg) /\ pc = "done" /\ reads = Len(hist))
    /\ (~IsComplete(LastMsg) /\ ~HasText(LastMsg, "ErrorDescription")) => ReadsOn
C7_Witness ==
  /\ op = "upgrade" /\ pc = "done" /\ result = Ok(Unit) /\ Len(hist) = 2
  /\ Get(hist[1], "Status") = Str("Installing")
  /\ Get(hist[2], "Status") = Str("Complete")

\* The Status of the reply the call read.
ReplyStatus == IF io.kind = "read" /\ io.out.st = "ok" /\ res # None
               THEN Get(res, "Status") ELSE None

\* C8: MisagentRsdClient::install succeeds on Status 0 and fails on Status 1.
C8_RsdInstallZeroIsSuccess ==
  (op = "rsd_install" /\ pc = "done") =>
    /\ ReplyStatus = Integer(Num(0)) => result = Ok(Unit)
    /\ ReplyStatus = Integer(Num(1)) => result = Err("MisagentFailure")
C8_Witness ==
  op = "rsd_install" /\ pc = "done" /\ ReplyStatus = Integer(Num(0)) /\ result = Ok(Unit)

\* C9: MisagentClient::install succeeds exactly when the reply's Status is the
\* integer 1; any other reply gives an error.
C9_InstallOneIsSuccess ==
  (op = "misagent_install" /\ pc = "done") =>
    /\ result.st \in {"ok", "err"}
    /\ result.st = "ok" <=> ReplyStatus = Integer(Num(1))
C9_Witness ==
  op = "misagent_install" /\ pc = "done" /\ ReplyStatus = Integer(Num(1)) /\ result = Ok(Unit)

\* C10: install and remove succeed on Status 0 over RSD and on Status 1 over
\* the lockdown-style channel; in particular MisagentRsdClient::remove
\* succeeds on Status 0.
C10_SuccessStatusByTransport ==
  pc = "done" =>
    /\ (op \in {"rsd_install", "rsd_remove"} /\ ReplyStatus = Integer(Num(0)))
         => result = Ok(Unit)
    /\ (op \in {"misagent_install", "misagent_remove"} /\ ReplyStatus = Integer(Num(1)))
         => result = Ok(Unit)

InvocationId(req) == req["CoreDevice.invocationIdentifier"]
DeviceId(req) == req["CoreDevice.deviceIdentifier"]

\* C11: no two invoke calls on one client send the same invocation
\* identifier: the identifier of each envelope differs from the one of every
\* envelope sent before it.
C11_InvocationIdsFresh ==
  \A i, j \in DOMAIN invoked : i # j => InvocationId(invoked[i]) # InvocationId(invoked[j])
C11_Witness ==
  /\ op = "invoke" /\ pc = "invoke_recv" /\ Len(invoked) >= 3
  /\ InvocationId(invoked[1]) # InvocationId(invoked[3])

\* C12: every invoke call on one client sends the same device identifier in
\* its envelope.
C12_DeviceIdConstant ==
  \A i, j \in DOMAIN invoked : DeviceId(invoked[i]) = DeviceId(invoked[j])

VersionOf(s) == [i \in 1..Len(s) |-> UInt64(s[i])]
\* C13: the version structure lists, in their order, the values of exactly the
\* dot-separated segments that parse as an unsigned integer, reports the length
\* of that list as the component count, and carries the string unchanged;
\* "443.18" gives 2 and [443, 18], "1.a.2" gives 2 and [1, 2].
C13_VersionEncoding ==
  (op = "create_xpc_version_from_string" /\ pc = "done") =>
    LET version == local.version
        kept == SelectSeq(Split(version), LAMBDA x : ParseU64(x) # None)
        out == result.val
    IN /\ result.st = "ok"
       /\ out.components = XpcArray([i \in 1..Len(kept) |-> ParseU64(kept[i])])
       /\ out.originalComponentsCount = Int64(Len(kept))
       /\ out.stringValue = XpcString(version)
       /\ version = <<"4", "4", "3", ".", "1", "8">> =>
            /\ out.originalComponentsCount = Int64(2)
            /\ out.components.v = VersionOf(<< <<"4", "4", "3">>, <<"1", "8">> >>)
       /\ version = <<"1", ".", "a", ".", "2">> =>
            /\ out.originalComponentsCount = Int64(2)
            /\ out.components.v = VersionOf(<< <<"1">>, <<"2">> >>)
C13_Witness ==
  /\ op = "create_xpc_version_from_string" /\ pc = "done"
  /\ local.version = <<"1", ".", "a", ".", "2">>
  /\ result.val.originalComponentsCount = Int64(2)
  /\ Len(result.val.components.v) = 2

HasOutput(reply) == reply.t = "Dictionary" /\ "CoreDevice.output" \in DOMAIN reply.v
\* C14: invoke returns the value of the reply's CoreDevice.output when the
\* reply is a dictionary that has it, and UnexpectedResponse for every reply
\* that is not a dictionary or has no such field.
C14_InvokeOutput ==
  (op = "invoke" /\ io.kind = "read" /\ io.out.st = "ok") =>
    /\ pc = "done"
    /\ HasOutput(io.out.val) => result = Ok(io.out.val.v["CoreDevice.output"])
    /\ ~HasOutput(io.out.val) => result = Err("UnexpectedResponse")
C14_Witness ==
  /\ op = "invoke" /\ pc = "done" /\ io.kind = "read" /\ io.out.st = "ok"
  /\ HasOutput(io.out.val) /\ "CoreDevice.error" \in DOMAIN io.out.val.v
  /\ result = Ok(DictV([apps |-> Str("none")]))

\* C15: what send writes as the length prefix is the length of the body it
\* writes after it, for every body, so that a receiver that reads the prefix
\* and then that many bytes gets exactly the body.
C15_FrameRoundTrip ==
  \A i \in DOMAIN wire : U32AsUsize(wire[i].header) = wire[i].body.len

FramedRead == op \in {"rsd_install", "rsd_remove", "from_stream"} /\ io.kind = "read"
\* The stream s ends before the 4 header bytes or the body they declare.
EndsEarly(s) ==
  Len(s) < 4 \/ ~AtMost(U32AsUsize(SubSeq(s, 1, 4)), Len(s) - 4)
\* C16: a read of a frame from a stream that ends before the 4 header bytes
\* or before the declared number of body bytes fails with the transport's
\* error and gives nothing to the parser; what the parser is given is always
\* the whole declared body.
C16_ShortReadIsTransportError ==
  FramedRead =>
    /\ EndsEarly(local.before) =>
         (pc = "done" /\ result = Err("Socket") /\ local.handed = <<>>)
    /\ local.handed # <<>> =>
         /\ ~EndsEarly(local.before)
         /\ local.handed[1] =
              SubSeq(local.before, 5, 4 + Small(U32AsUsize(SubSeq(local.before, 1, 4))))
C16_Witness ==
  /\ op = "rsd_install" /\ pc = "done" /\ io.kind = "read"
  /\ local.before = <<0, 0, 0, 2, 66>>
  /\ result = Err("Socket")

ReadReply == io.kind = "read" /\ io.out.st = "ok"
\* C17: start_service returns a port only when the reply's Port is an integer
\* from 0 to 65535, and then that value; for every other reply (Port absent,
\* not an integer, negative, above 65535) it returns UnexpectedResponse.
C17_PortFitsSixteenBits ==
  (op = "start_service" /\ ReadReply) =>
    LET port == Get(io.out.val, "Port")
        fits == port.t = "Integer" /\ port.v.hi = 0 /\ port.v.lo \in 0..65535
    IN /\ pc = "done"
       /\ fits => (result.st = "ok" /\ result.val.port = port.v.lo)
       /\ ~fits => result = Err("UnexpectedResponse")

\* C18: the tls_required flag start_service returns is false when the reply
\* has no EnableServiceSSL, and the field's value when that is a boolean.
C18_ServiceSSLDefaultsFalse ==
  (op = "start_service" /\ ReadReply /\ pc = "done" /\ result.st = "ok") =>
    LET e == Get(io.out.val, "EnableServiceSSL")
    IN /\ e = None => result.val.ssl = FALSE
       /\ e.t = "Boolean" => result.val.ssl = e.v
C18_Witness ==
  /\ op = "start_service" /\ ReadReply /\ pc = "done"
  /\ "EnableServiceSSL" \notin DOMAIN io.out.val
  /\ result = Ok([port |-> 49152, ssl |-> FALSE])

ValueOfReply == Get(io.out.val, "Value")
\* C19 as stated: get_value and get_all_values return the content of Value
\* whenever the reply has it, and UnexpectedResponse whenever it has not.
C19_ValueIsReturned ==
  (op \in {"get_value", "get_all_values"} /\ ReadReply) =>
    /\ pc = "done"
    /\ ValueOfReply # None =>
         /\ result.st = "ok"
         /\ result.val = IF op = "get_value" THEN ValueOfReply ELSE ValueOfReply.v
    /\ ValueOfReply = None => result = Err("UnexpectedResponse")
\* C19: get_value returns the content of Value whenever the reply has it;
\* get_all_values returns it when it is a dictionary and fails to convert any
\* other kind of value; both return UnexpectedResponse when Value is missing.
C19_ValueOrDictionaryIsReturned ==
  (op \in {"get_value", "get_all_values"} /\ ReadReply) =>
    /\ pc = "done"
    /\ (op = "get_value" /\ ValueOfReply # None) => result = Ok(ValueOfReply)
    /\ (op = "get_all_values" /\ ValueOfReply.t = "Dictionary")
         => result = Ok(ValueOfReply.v)
    /\ (op = "get_all_values" /\ ValueOfReply.t \notin {"None", "Dictionary"})
         => result = Err("Plist")
    /\ ValueOfReply = None => result = Err("UnexpectedResponse")
C19_Witness ==
  /\ op = "get_all_values" /\ ReadReply /\ pc = "done"
  /\ ValueOfReply = DictV([DeviceName |-> Str("iPhone")])
  /\ result = Ok([DeviceName |-> Str("iPhone")])

IsRequest(o, name) ==
  /\ o.st = "ok" /\ o.val.t = "Dictionary"
  /\ "Request" \in DOMAIN o.val.v /\ o.val.v["Request"] = Str(name)
\* C20: from_stream sends the RSDCheckin request, then reads one reply, which
\* has to carry Request "RSDCheckin", then a second one, which has to carry
\* Request "StartService"; it returns a client only when both did, and it does
\* not read the second reply when the first one fails.
C20_CheckinOrder ==
  op = "from_stream" =>
    /\ reads = Len(local.replies) /\ reads <= 2
    /\ pc = "fs_first" => reads = 0
    /\ pc = "fs_second" => reads = 1
    /\ (reads >= 1 \/ pc = "fs_first") =>
         (sent = <<CheckinRequest>> /\ Len(wire) = 1 /\ wire[1].body.of = CheckinRequest)
    /\ (reads >= 1 /\ ~IsRequest(local.replies[1], "RSDCheckin")) =>
         (reads = 1 /\ pc = "done" /\ result.st = "err")
    /\ (reads = 2 /\ ~IsRequest(local.replies[2], "StartService")) =>
         (pc = "done" /\ result.st = "err")
    /\ result.st = "ok" =>
         /\ pc = "done" /\ reads = 2
         /\ IsRequest(local.replies[1], "RSDCheckin")
         /\ IsRequest(local.replies[2], "StartService")
C20_Witness ==
  /\ op = "from_stream" /\ pc = "done" /\ reads = 2
  /\ IsRequest(local.replies[1], "RSDCheckin")
  /\ IsRequest(local.replies[2], "StartService")
  /\ result = Ok("MisagentRsdClient")

\* The elements a message contributes: those of its CurrentList when that is
\* an array, none otherwise.
ListOf(m) ==
  IF "CurrentList" \in DOMAIN m /\ m["CurrentList"].t = "Array"
  THEN m["CurrentList"].v ELSE <<>>
RECURSIVE Concat(_)
Concat(ms) == IF ms = <<>> THEN <<>> ELSE ListOf(Head(ms)) \o Concat(Tail(ms))
BrowseReturned == op = "browse" /\ pc = "done" /\ result.st = "ok"
\* C21: what browse returns is the concatenation, message after message and
\* element after element, of the CurrentList arrays of the messages it read;
\* when it read a message with a list and Status "Complete", that message is
\* the last one read and its list is part of the result.
C21_BrowseConcatenates ==
  /\ BrowseReturned => (result.val = Concat(hist) /\ reads = Len(hist))
  /\ op = "browse" =>
       \A i \in DOMAIN hist :
         ("CurrentList" \in DOMAIN hist[i] /\ hist[i]["CurrentList"].t = "Array"
            /\ IsComplete(hist[i]))
           => (i = Len(hist) /\ BrowseReturned)
C21_Witness ==
  /\ BrowseReturned /\ Len(hist) = 2
  /\ ~IsComplete(hist[1]) /\ IsComplete(hist[2])
  /\ result.val = <<Str("A"), Str("B"), Str("C")>>

\* C22: a message without CurrentList ends browse at once: it is the last
\* message read and browse returns Ok with the elements of the messages read
\* before it, whatever its Status.
C22_MissingListEndsBrowse ==
  op = "browse" =>
    \A i \in DOMAIN hist :
      "CurrentList" \notin DOMAIN hist[i] =>
        /\ i = Len(hist) /\ pc = "done"
        /\ result = Ok(Concat(SubSeq(hist, 1, i - 1)))
C22_Witness ==
  /\ BrowseReturned /\ Len(hist) = 2
  /\ "CurrentList" \notin DOMAIN hist[2]
  /\ hist[2] = [Status |-> Str("BrowsingApplications")]
  /\ result.val = <<Str("A"), Str("B")>>

\* The label of the message m, by priority among its string fields.
LabelOf(m) ==
  IF HasText(m, "CurrentOperation") THEN m["CurrentOperation"].v
  ELSE IF HasText(m, "StatusDescription") THEN m["StatusDescription"].v
  ELSE IF HasText(m, "Phase") THEN m["Phase"].v
  ELSE "Installing"
\* A progress message has been read and was not a failure report.
ProgressRead ==
  op \in WatchOps /\ Len(hist) > 0 /\ ~HasText(res, "ErrorDescription")
LastCall == sink[Len(sink)]
\* C23 as stated: the label of a progress message is CurrentOperation, else
\* StatusDescription, else Phase, else "Installing", and a message with
\* PercentComplete makes the sink be invoked with that percent and that label.
C23_SinkGetsLabel ==
  ProgressRead =>
    /\ local.status_text = LabelOf(res)
    /\ HasUInt(res, "PercentComplete") =>
         /\ sink # <<>>
         /\ LastCall.percent = res["PercentComplete"].v
         /\ LastCall.state = LabelOf(res)
\* C23 (amended): the label is as stated, taken from the fields that are
\* strings, and stays inside watch_completion; a message with PercentComplete
\* makes the sink be invoked with that percent and the caller's state value.
C23_SinkGetsState ==
  ProgressRead =>
    /\ local.status_text = LabelOf(res)
    /\ HasUInt(res, "PercentComplete") =>
         /\ sink # <<>>
         /\ LastCall = [percent |-> res["PercentComplete"].v, state |-> CallbackState]
C23_Witness ==
  /\ ProgressRead /\ op = "upgrade"
  /\ HasUInt(res, "PercentComplete")
  /\ "CurrentOperation" \in DOMAIN res /\ ~HasText(res, "CurrentOperation")
  /\ local.status_text = "Verifying"
  /\ LastCall = [percent |-> Num(50), state |-> CallbackState]

PairSucceeded == op = "pair" /\ pc = "done" /\ InPairLoop /\ ReadReply
SentPairRecord == sent[Len(sent)]["PairRecord"].v
\* C24: after a successful Pair reply the record pair returns has
\* HostPrivateKey equal to the generated root private key, has EscrowBag,
\* equal to the reply's, exactly when the reply carries an escrow bag (bytes
\* under EscrowBag), and has every field of the PairRecord that was sent,
\* unchanged, and no other field.
C24_PairedRecord ==
  PairSucceeded =>
    /\ result.st = "ok"
    /\ LET record == result.val
           bag == Get(io.out.val, "EscrowBag")
       IN /\ record["HostPrivateKey"] = local.ca.private_key
          /\ record["HostPrivateKey"] = SentPairRecord["RootPrivateKey"]
          /\ "EscrowBag" \in DOMAIN record <=> bag.t = "Data"
          /\ bag.t = "Data" => record["EscrowBag"] = bag
          /\ DOMAIN record \ {"HostPrivateKey", "EscrowBag"} = DOMAIN SentPairRecord
          /\ \A k \in DOMAIN SentPairRecord : record[k] = SentPairRecord[k]
C24_Witness ==
  /\ PairSucceeded /\ local.pendings = 1
  /\ Get(io.out.val, "EscrowBag") = Data("ESCROW")
  /\ result.st = "ok"
  /\ result.val["EscrowBag"] = Data("ESCROW")
  /\ result.val["HostPrivateKey"] = Data("ROOTKEY")

MultiOps == WatchOps \cup {"browse"}
\* The device ends its answer to a command with the message that reports the
\* completion (Status "Complete") or the failure (an ErrorDescription text);
\* every other message of the answer is followed by a further one.
EndsAnswer(m) == IsComplete(m) \/ HasText(m, "ErrorDescription")
TransportError == result.st = "err" /\ result.err \in {"Socket", "NoEstablishedConnection"}
\* C25: when install, upgrade, uninstall or browse has returned without a
\* transport error, the last message it read is the last message of the
\* device's answer, so that nothing of the answer is left for the next call.
C25_AnswerIsConsumed ==
  (op \in MultiOps /\ pc = "done" /\ ~TransportError) =>
    (Len(hist) > 0 /\ EndsAnswer(LastMsg))

\* The latest write or read of the running call failed in the transport.
TransportFailed ==
  /\ io.kind \in {"write", "read"} /\ io.out.st = "err"
  /\ io.out.err \in {"Socket", "NoEstablishedConnection"}
\* C26: in every operation a write or a read that fails in the transport is
\* the last thing the call does on the connection: the call has returned, and
\* what it returned is that error.
C26_TransportFailureEndsCall ==
  TransportFailed => (pc = "done" /\ result = io.out)
C26_Witness ==
  /\ op = "pair" /\ InPairLoop /\ local.pendings = 1
  /\ io = Wrote(Err("Socket"))
  /\ pc = "done" /\ result = Err("Socket")
  /\ Len(PairRequestsSent) = 1

Reply == io.out.val
\* The field f of a framed or XPC reply, None when the reply is no dictionary.
FieldOf(x, f) == IF x.t = "Dictionary" THEN Get(x.v, f) ELSE None
\* The reply just read lacks a field the operation needs, or has it in
\* another shape than the operation needs.
LacksExpected ==
  /\ ReadReply
  /\ CASE op = "start_session" -> Get(Reply, "EnableSessionSSL").t # "Boolean"
       [] op = "get_value" -> Get(Reply, "Value") = None
       [] op = "get_all_values" -> Get(Reply, "Value").t # "Dictionary"
       [] op = "start_service" -> Get(Reply, "Port").t # "Integer"
       [] op = "pair" /\ reads = 1 -> Get(Reply, "Value").t # "Data"
       [] op = "pair" /\ reads = 2 -> Get(Reply, "Value").t # "String"
       [] op \in {"misagent_install", "misagent_remove"} -> Get(Reply, "Status").t # "Integer"
       [] op \in {"rsd_install", "rsd_remove"} -> FieldOf(Reply, "Status").t # "Integer"
       [] op = "from_stream" ->
            FieldOf(Reply, "Request") # Str(IF reads = 1 THEN "RSDCheckin" ELSE "StartService")
       [] op = "invoke" -> FieldOf(Reply, "CoreDevice.output") = None
       [] op = "list_apps" -> FieldOf(Reply, "CoreDevice.output").t # "Array"
       [] op = "browse" -> Get(Reply, "CurrentList").t # "Array"
       [] op = "misagent_copy_all" -> Get(Reply, "Payload").t # "Array"
       [] op = "rsd_copy_all" -> FieldOf(Reply, "Payload").t # "Array"
       [] OTHER -> FALSE
C28_ReplyIsCorrelated ==
  op = "invoke" =>
    /\ Len(sent) <= 1 /\ reads <= 1
    /\ (pc = "done" /\ result.st = "ok") =>
         /\ Len(sent) = 1 /\ reads = 1
         /\ local.reply_to = InvocationId(sent[1])

\* The element x has the shape of an AppRecord.
IsAppRecord(x) ==
  /\ x.t = "Dictionary"
  /\ \A k \in {"isRemovable", "isFirstParty", "isDeveloperApp", "isInternal",
               "isHidden", "isAppClip"} :
       k \in DOMAIN x.v /\ x.v[k].t = "Boolean"
  /\ \A k \in {"name", "path", "bundleIdentifier"} :
       k \in DOMAIN x.v /\ x.v[k].t = "String"
  /\ \A k \in {"bundleVersion", "version"} : k \in DOMAIN x.v => x.v[k].t = "String"
\* The record rec is what the element x carries.
RecordOf(rec, x) ==
  /\ rec.name = x.v["name"].v /\ rec.path = x.v["path"].v
  /\ rec.bundle_identifier = x.v["bundleIdentifier"].v
  /\ rec.is_removable = x.v["isRemovable"].v /\ rec.is_first_party = x.v["isFirstParty"].v
  /\ rec.is_developer_app = x.v["isDeveloperApp"].v /\ rec.is_internal = x.v["isInternal"].v
  /\ rec.is_hidden = x.v["isHidden"].v /\ rec.is_app_clip = x.v["isAppClip"].v
  /\ rec.bundle_version = Get(x.v, "bundleVersion") /\ rec.version = Get(x.v, "version")
\* C29: list_apps returns a list only when the output of the reply is an
\* array whose every element has the shape of an AppRecord, and then one
\* record per element, in order; when the output is no array or some element
\* does not decode it returns UnexpectedResponse.
C29_ListAppsAllOrNothing ==
  (op = "list_apps" /\ ReadReply) =>
    LET out == FieldOf(Reply, "CoreDevice.output")
        good == out.t = "Array" /\ \A i \in DOMAIN out.v : IsAppRecord(out.v[i])
    IN /\ pc = "done"
       /\ good => /\ result.st = "ok"
                  /\ Len(result.val) = Len(out.v)
                  /\ \A i \in DOMAIN out.v : RecordOf(result.val[i], out.v[i])
       /\ ~good => result = Err("UnexpectedResponse")
C29_Witness ==
  /\ op = "list_apps" /\ ReadReply /\ pc = "done"
  /\ FieldOf(Reply, "CoreDevice.output").t = "Array"
  /\ Len(FieldOf(Reply, "CoreDevice.output").v) = 2
  /\ IsAppRecord(FieldOf(Reply, "CoreDevice.output").v[1])
  /\ ~IsAppRecord(FieldOf(Reply, "CoreDevice.output").v[2])
  /\ result = Err("UnexpectedResponse")

\* C30: start_session on a client without a connection returns
\* NoEstablishedConnection; it attempts no write, so no StartSession request
\* is sent, it reads nothing and it attempts no TLS upgrade.
C30_NoConnectionNoRequest ==
  (op = "start_session" /\ ~socket) =>
    /\ pc = "done" /\ result = Err("NoEstablishedConnection")
    /\ io = NoIo /\ sent = <<>> /\ reads = 0
    /\ tlsUpgrades = 0
C30_Witness ==
  /\ op = "start_session" /\ ~socket
  /\ pc = "done" /\ result = Err("NoEstablishedConnection")
  /\ io = NoIo /\ sent = <<>> /\ tlsUpgrades = 0

\* The requests of the running pair call, by what they ask for.
IsGetValue(q, key) ==
  q.Request = Str("GetValue") /\ "Key" \in DOMAIN q /\ q.Key = Str(key)
\* C31: pair asks for DevicePublicKey first, for WiFiAddress second, and
\* writes Pair requests only after both; a DevicePublicKey that is no data or
\* a WiFiAddress that is no string makes pair return UnexpectedResponse with
\* no Pair request written.
C31_PairFetchesFirst ==
  op = "pair" =>
    /\ Len(sent) >= 1 => IsGetValue(sent[1], "DevicePublicKey")
    /\ Len(sent) >= 2 => IsGetValue(sent[2], "WiFiAddress")
    /\ \A i \in DOMAIN sent : sent[i].Request = Str("Pair") => i >= 3
    /\ (Len(sent) >= 2 /\ ~InPairLoop) => (reads >= 1 /\ local.pub_key.t = "Data")
    /\ Len(sent) >= 3 => InPairLoop
    /\ InPairLoop =>
         /\ reads >= 2 /\ Len(sent) >= 2
         /\ local.pair_record["DevicePublicKey"].t = "Data"
         /\ local.pair_record["WiFiMACAddress"].t = "String"
    /\ (ReadReply /\ reads = 1 /\ Get(Reply, "Value").t # "Data") =>
         (pc = "done" /\ result = Err("UnexpectedResponse") /\ PairRequestsSent = <<>>)
    /\ (ReadReply /\ reads = 2 /\ Get(Reply, "Value").t # "String") =>
         (pc = "done" /\ result = Err("UnexpectedResponse") /\ PairRequestsSent = <<>>)
C31_Witness ==
  /\ op = "pair" /\ ReadReply /\ reads = 2
  /\ Get(Reply, "Value") = Data("aa:bb")
  /\ pc = "done" /\ result = Err("UnexpectedResponse")
  /\ Len(sent) = 2

\* An invocation of the sink has begun and has not completed.
SinkRunning == "awaiting" \in DOMAIN local
\* C32: while an invocation of the sink runs, watch_completion is suspended
\* at it: it has not returned and has read nothing after the message the
\* invocation is for; every read and every return happens with all earlier
\* invocations completed, and the invocations follow the order of the stream.
C32_SinkInline ==
  op \in WatchOps =>
    /\ SinkRunning <=> pc = "watch_callback"
    /\ SinkRunning =>
         /\ result = NoResult /\ reads = Len(hist) /\ io = Read(Ok(res))
         /\ HasUInt(LastMsg, "PercentComplete")
         /\ LastCall.percent = LastMsg["PercentComplete"].v
    /\ LET with == SelectSeq(hist, LAMBDA m : HasUInt(m, "PercentComplete")
                                           /\ ~HasText(m, "ErrorDescription"))
       IN /\ Len(sink) = Len(with)
          /\ \A i \in 1..Len(with) : sink[i].percent = with[i]["PercentComplete"].v
C32_Witness ==
  /\ op = "install" /\ pc = "watch_callback" /\ SinkRunning
  /\ Len(hist) = 2 /\ Len(sink) = 2 /\ reads = 2
  /\ LastCall.percent = Num(50)

\* The messages of hist for which the sink is invoked.
WithPercent(h) ==
  SelectSeq(h, LAMBDA m : HasUInt(m, "PercentComplete") /\ ~HasText(m, "ErrorDescription"))
\* C35: a message that carries an ErrorDescription text fails the operation
\* with that text even when it also carries PercentComplete or Status
\* "Complete", and the sink is not invoked for it.
C35_ErrorDescriptionWins ==
  (op \in WatchOps /\ Len(hist) > 0 /\ HasText(LastMsg, "ErrorDescription")) =>
    /\ pc = "done" /\ ~SinkRunning
    /\ result = ErrMsg("InstallationProxyOperationFailed", LastMsg["ErrorDescription"].v)
    /\ Len(sink) = Len(WithPercent(SubSeq(hist, 1, Len(hist) - 1)))
C35_Witness ==
  /\ op = "uninstall" /\ pc = "done" /\ Len(hist) = 1
  /\ LastMsg = [ErrorDescription |-> Str("disk full"),
                PercentComplete |-> Integer(Num(50)), Status |-> Str("Complete")]
  /\ sink = <<>>
  /\ result = ErrMsg("InstallationProxyOperationFailed", "disk full")

\* The last message read has a percent and Status "Complete" and no
\* ErrorDescription text.
PercentAndComplete ==
  /\ op \in WatchOps /\ Len(hist) > 0
  /\ HasUInt(LastMsg, "PercentComplete") /\ IsComplete(LastMsg)
  /\ ~HasText(LastMsg, "ErrorDescription")
C37_NoHostPrivateKeyOnTheWire ==
  op = "pair" =>
    /\ \A i \in DOMAIN PairRequestsSent :
         "HostPrivateKey" \notin DOMAIN PairRequestsSent[i]["PairRecord"].v
    /\ InPairLoop => "HostPrivateKey" \notin DOMAIN local.req["PairRecord"].v
    /\ result.st = "ok" =>
         /\ pc = "done" /\ ReadReply /\ PairRequestsSent # <<>>
         /\ "HostPrivateKey" \in DOMAIN result.val
C37_Witness ==
  /\ op = "pair" /\ pc = "done" /\ result.st = "ok"
  /\ Len(PairRequestsSent) = 3
  /\ result.val["HostPrivateKey"] = Data("ROOTKEY")
  /\ "HostPrivateKey" \notin DOMAIN PairRequestsSent[3]["PairRecord"].v

\* C34: uninstall_app returns Ok(()) for every reply of which invoke returns
\* the output, whatever the output is, and returns the error of invoke
\* otherwise: the failed send or receive, or UnexpectedResponse for a reply
\* without output.
C34_UninstallIgnoresOutput ==
  (op = "uninstall_app" /\ pc = "done") =>
    /\ io.out.st = "err" => result = io.out
    /\ ReadReply =>
         /\ FieldOf(Reply, "CoreDevice.output") # None => result = Ok(Unit)
         /\ FieldOf(Reply, "CoreDevice.output") = None => result = Err("UnexpectedResponse")
C34_Witness ==
  /\ op = "uninstall_app" /\ pc = "done" /\ ReadReply
  /\ FieldOf(Reply, "CoreDevice.output") = Bool(FALSE)
  /\ FieldOf(Reply, "CoreDevice.error") = Str("denied")
  /\ result = Ok(Unit)

\* The dials of the service port (the first dial is the lockdown port).
ServiceDials == SubSeq(local.dialed, 2, Len(local.dialed))
\* C33: in connect the port start_service returned is dialed only after
\* start_session and start_service on the lockdown connection have returned
\* Ok, and it is the only port dialed besides lockdown's; when one of the
\* two fails, connect returns that error and has dialed no service port.
C33_DialAfterSession ==
  op = "connect" =>
    /\ Len(ServiceDials) <= 1
    /\ ServiceDials # <<>> =>
         /\ local.session = Ok(Unit) /\ tlsUpgrades = 1
         /\ local.started.st = "ok"
         /\ ServiceDials[1].port = local.started.val.port
    /\ (local.session.st = "err" \/ local.started.st = "err") =>
         /\ pc = "done" /\ ServiceDials = <<>>
         /\ result = (IF local.session.st = "err" THEN local.session ELSE local.started)
    /\ local.started # NoResult => local.session = Ok(Unit)
C33_Witness ==
  /\ op = "connect" /\ pc = "done" /\ local.service = "MisagentClient"
  /\ local.session = Ok(Unit) /\ local.started = Ok([port |-> 49152, ssl |-> FALSE])
  /\ ServiceDials = <<[port |-> 49152, out |-> Ok(Unit)]>>
  /\ result = Ok("MisagentClient")

\* C40: connect upgrades the service connection exactly when start_service
\* returned ssl = true, and returns the client only after an upgrade that
\* was wanted has succeeded.
C40_UpgradeIffRequired ==
  (op = "connect" /\ pc = "done") =>
    /\ local.upgrades # <<>> =>
         (local.started.st = "ok" /\ local.started.val.ssl /\ ServiceDials # <<>>
            /\ ServiceDials[1].out = Ok(Unit))
    /\ result.st = "ok" =>
         /\ result.val = local.service
         /\ local.started.st = "ok" /\ ServiceDials # <<>>
         /\ (local.upgrades # <<>>) <=> local.started.val.ssl
         /\ local.started.val.ssl => local.upgrades = <<Ok(Unit)>>
    /\ (local.upgrades # <<>> /\ local.upgrades[1].st = "err") => result = local.upgrades[1]
C40_Witness ==
  /\ op = "connect" /\ pc = "done" /\ local.service = "InstallationProxyClient"
  /\ local.started = Ok([port |-> 49152, ssl |-> TRUE])
  /\ local.upgrades = <<Ok(Unit)>>
  /\ result = Ok("InstallationProxyClient")

\* An application-level request of the framed channel is on the wire.
RsdRequestWritten == op \in {"rsd_install", "rsd_remove", "rsd_copy_all"} /\ wire # <<>>
\* The two responses of the check-in were accepted on the client's stream.
CheckedIn ==
  /\ Len(rsd.checkin) = 2
  /\ RequestIs(rsd.checkin[1], "RSDCheckin")
  /\ RequestIs(rsd.checkin[2], "StartService")
\* C39, as claimed: whenever a MisagentRsdClient has written an install or
\* remove request, the check-in has completed on its stream, however the
\* client was made.
C39_CheckinBeforeRequests == RsdRequestWritten => CheckedIn
\* C39: a client that from_stream returned has completed the check-in before
\* any install or remove request is written, and from_stream itself writes
\* nothing but the check-in request; a client made by new has done no
\* check-in of its own when it writes its requests.
C39_CheckinBeforeRequestsFromStream ==
  /\ rsd.how = "from_stream" => CheckedIn
  /\ RsdRequestWritten =>
       /\ rsd.how \in {"from_stream", "new"}
       /\ rsd.how = "new" => rsd.checkin = <<>>
  /\ op = "from_stream" => \A i \in DOMAIN sent : sent[i] = CheckinRequest
  /\ (op = "from_stream" /\ pc = "done" /\ result.st = "ok") => rsd.how = "from_stream"
C39_Witness ==
  /\ RsdRequestWritten /\ rsd.how = "from_stream" /\ CheckedIn
  /\ op = "rsd_install" /\ pc = "done" /\ result = Ok(Unit)

\* The operations that write one request and read one reply.
SingleReplyOps ==
  {"get_value", "get_all_values", "set_value", "start_session", "start_service",
   "invoke", "misagent_install", "misagent_remove", "misagent_copy_all",
   "rsd_install", "rsd_remove", "rsd_copy_all"}
\* The call has met no failure of the transport and had a connection.
NoTransportError ==
  /\ io.kind \in {"write", "read"}
  /\ io.out.st = "err" => io.out.err \notin {"Socket", "NoEstablishedConnection"}
\* C38: a single-reply operation writes at most one request and reads only
\* after writing it; when it has returned without a failure of the transport
\* it has written exactly one request and read exactly one reply, whether it
\* returned success, UnexpectedResponse or an error of the device; on the
\* framed channel that read took one whole frame and no more.
C38_RequestReplyBalance ==
  op \in SingleReplyOps =>
    /\ Len(sent) <= 1 /\ reads <= Len(sent)
    /\ (pc = "done" /\ NoTransportError) => (Len(sent) = 1 /\ reads = 1)
    /\ (pc = "done" /\ (result.st = "ok" \/ result.err = "UnexpectedResponse")) =>
         (Len(sent) = 1 /\ reads = 1)
    /\ (pc = "done" /\ NoTransportError /\ op \in {"rsd_install", "rsd_remove", "rsd_copy_all"}) =>
         (local.handed # <<>> /\ local.before = Frame(local.handed[1]) \o stream)
C38_Witness ==
  /\ op = "rsd_copy_all" /\ pc = "done" /\ result = Err("UnexpectedResponse")
  /\ Len(sent) = 1 /\ reads = 1 /\ NoTransportError
  /\ local.before = Frame(local.handed[1]) \o stream

====
